---- MODULE Spec2Model ----
(***************************************************************************)
(* Model of the personal-assistant agent router.                           *)
(*                                                                         *)
(* Two programs live in the repository:                                    *)
(*   - the minimal router: buildAgentGraph / handler, whose nodes are      *)
(*     personalAssistantAgent, featureRequestAgent, deepResearchAgent and  *)
(*     gmeRedditSummaryAgent (specification Spec);                         *)
(*   - the ReAct variant: supervisorNode, featureRequestNode, the          *)
(*     research / reddit agent and tool nodes, driven by runConversation   *)
(*     (specification SpecReact).                                          *)
(*                                                                         *)
(* The reasoning oracle (the LLM) is an opaque collaborator: every oracle  *)
(* call is a nondeterministic choice among the texts it may return, or a   *)
(* failure of the call.                                                    *)
(***************************************************************************)
EXTENDS Integers, Sequences, FiniteSets, TLC

VARIABLES
    entry,          \* how the current pass was started: "handler" | "graph" | "conversation"
    pc,             \* "idle" | "running" | "END" | "RecursionError" | "RoutingError" | "NodeError"
    node,           \* the node the executor invokes next
    steps,          \* supersteps taken in the current pass
    messages,       \* channel messages of the running graph
    agentState,     \* channel agentState of buildAgentGraph
    featureRequests,\* module-level queue of featureRequestQueue.ts
    now,            \* the clock read by new Date()
    passes,         \* number of passes started so far
    nextAgent,      \* ReAct channel nextAgent
    userInput,      \* ReAct channel userInput
    featureRequestQueue, \* ReAct in-memory queue
    currentMessages,\* runConversation's history
    trace,          \* history: the node invocations of the current pass, in order
    oracleCalls,    \* history: oracle calls made in the current pass
    queueAtStart,   \* history: the shared queue when the current pass began
    lastPass,       \* history: summary of the previous pass
    response,       \* what handler returned for the current pass (empty until then)
    sessions,       \* handler calls in flight at once: each one's position and state
    appendLog,      \* history: the addFeatureRequest calls in the order they ran
    returned,       \* lists callers of the queue module still hold, each with what it held when returned
    added,          \* history: the requests pushed since the queue was last empty by construction
    toolCall        \* the last direct call of a tool or pure function: its input and its result

vars == <<entry, pc, node, steps, messages, agentState, featureRequests, now,
          passes, nextAgent, userInput, featureRequestQueue, currentMessages,
          trace, oracleCalls, queueAtStart, lastPass, response,
          sessions, appendLog, returned, added, toolCall>>

reactVars == <<nextAgent, userInput, featureRequestQueue, currentMessages>>

concurrentVars == <<sessions, appendLog>>

toolVars == <<returned, added, toolCall>>

----------------------------------------------------------------------------
(* Bounds of the model *)

\* The executor aborts a pass that has not reached END after this many
\* supersteps (the graph library's recursion limit; the library's default is
\* larger, the model keeps it small).
RecursionLimit == 4

\* Number of passes (handler calls, conversation turns) explored.
MaxPasses == 2

\* Number of handler calls in flight at once.
MaxSessions == 2

----------------------------------------------------------------------------
(* Texts *)

WS == " "

RECURSIVE trimStart(_)
trimStart(s) == IF s # <<>> /\ Head(s) = WS THEN trimStart(Tail(s)) ELSE s

RECURSIVE trimEnd(_)
trimEnd(s) ==
    IF s # <<>> /\ s[Len(s)] = WS THEN trimEnd(SubSeq(s, 1, Len(s) - 1)) ELSE s

\* String.prototype.trim on a text given as a sequence of tokens
trim(s) == trimEnd(trimStart(s))

RECURSIVE join(_)
\* the string a token sequence spells
join(s) == IF s = <<>> THEN "" ELSE Head(s) \o join(Tail(s))

IsPrefix(s, t) == Len(s) <= Len(t) /\ SubSeq(t, 1, Len(s)) = s

Last(s) == s[Len(s)]

Undefined == "undefined"

\* an optional field: absent, or holding x
None == <<>>
Some(x) == <<x>>

\* An oracle call either returns a reply with a content or fails (throws).
Reply(content) == [ok |-> TRUE, content |-> content]
Failure(blank) == [ok |-> FALSE, content |-> blank]

----------------------------------------------------------------------------
(* Data of the minimal router *)

PA  == "PersonalAssistant"
FRA == "FeatureRequestAgent"
DRA == "DeepResearchAgent"
GRA == "GmeRedditSummaryAgent"

Workers == {FRA, DRA, GRA}
Nodes == {PA} \cup Workers

\* A message content is a sequence of text fragments (a template string with
\* its interpolated values); Text(s) is the content made of the one literal s.
Text(s) == <<s>>

\* Message of types.ts
Msg(role, content, agentName) ==
    [role |-> role, content |-> content, agentName |-> agentName]

SystemPrompt ==
    "You are a helpful personal assistant that can handle various tasks through specialized agents."

createInitialState ==
    [messages |-> << Msg("system", Text(SystemPrompt), Undefined) >>,
     agentState |-> [currentAgent |-> PA,
                     taskCompleted |-> FALSE,
                     featureRequests |-> <<>>,
                     researchResults |-> None,
                     redditSummary |-> None]]

\* what users type
UserMessages ==
    { Text("I wish the app had dark mode"), Text("What causes climate change?") }

\* texts the oracle may give when asked to name an agent (token sequences)
ClassificationTexts ==
    { <<FRA>>, <<DRA>>, <<GRA>>, <<PA>>,
      <<WS, FRA, WS>>,
      <<"Route", WS, "to", WS, FRA>> }

\* Array.prototype.filter(m => m.role === "user")
RECURSIVE userMessagesOf(_)
userMessagesOf(msgs) ==
    IF msgs = <<>> THEN <<>>
    ELSE IF Head(msgs).role = "user"
         THEN <<Head(msgs)>> \o userMessagesOf(Tail(msgs))
         ELSE userMessagesOf(Tail(msgs))

getRoutingMessage(agentName, userMessage) ==
    CASE agentName = FRA ->
           "I understand you have a feature idea or suggestion. Let me help document that for you."
      [] agentName = DRA ->
           "That's an interesting question that requires some research. Let me dig into that for you."
      [] agentName = GRA ->
           "I'll gather the latest information about GME from Reddit for you."
      [] OTHER -> "How can I assist you today?"

Greeting == "Hello! I'm your personal assistant. How can I help you today?"
PAErrorText == "I encountered an issue while processing your request. Please try again."

\* personalAssistantAgent: resp is the outcome of the oracle call; the
\* oracle is only called when the state holds a user message.
personalAssistantAgent(state, resp) ==
    LET users == userMessagesOf(state.messages) IN
    IF users = <<>>
    THEN [messages |-> Append(state.messages, Msg("assistant", Text(Greeting), PA)),
          agentState |-> [state.agentState EXCEPT !.currentAgent = PA,
                                                  !.taskCompleted = FALSE],
          calls |-> 0, outcome |-> "greeting"]
    ELSE IF ~resp.ok
    THEN [messages |-> Append(state.messages, Msg("assistant", Text(PAErrorText), PA)),
          agentState |-> [state.agentState EXCEPT !.currentAgent = PA,
                                                  !.taskCompleted = FALSE],
          calls |-> 1, outcome |-> "pa_error"]
    ELSE LET latestMessage == Last(users)
             agentName == join(trim(resp.content))
         IN [messages |-> Append(state.messages,
                 Msg("assistant",
                     Text(getRoutingMessage(agentName, latestMessage.content)),
                     PA)),
             agentState |-> [state.agentState EXCEPT !.currentAgent = agentName,
                                                     !.taskCompleted = FALSE],
             calls |-> 1, outcome |-> "routed"]

----------------------------------------------------------------------------
(* Structured output embedded in oracle text *)

\* An oracle text that is meant to carry JSON: optional prose around it, an
\* optional ```json fence, and the body between.
StructuredText(prose, fenced, body) ==
    [prose |-> prose, fenced |-> fenced, body |-> body]

Malformed == "malformed"

\* content.match(/```json\s*([\s\S]*?)\s*```|({[\s\S]*})/)?.[1] || content
\* Only the fenced alternative fills group 1; a bare object matched by the
\* second alternative leaves group 1 undefined and the whole content is kept.
extractJsonText(content) ==
    IF content.fenced
    THEN [prose |-> FALSE, body |-> content.body]
    ELSE [prose |-> content.prose, body |-> content.body]

\* JSON.parse: fails on anything that is not exactly one JSON value
jsonParses(text) == ~text.prose /\ text.body # Malformed

\* how the oracle wraps a body: bare, fenced inside prose, or in prose unfenced
Wrappings == { <<FALSE, FALSE>>, <<TRUE, TRUE>>, <<TRUE, FALSE>> }

StructuredTexts(bodies) ==
    { StructuredText(w[1], w[2], b) : w \in Wrappings, b \in bodies \cup {Malformed} }

----------------------------------------------------------------------------
(* Feature request queue: featureRequestQueue.ts *)

\* mutant: the new request is put in front of the queue
addFeatureRequest_unshift(queue, request) == <<request>> \o queue

\* mutant: the request never reaches the array
addFeatureRequest_dropped(queue, request) == queue

addFeatureRequest(queue, request) == Append(queue, request)

getAllFeatureRequests(queue) == queue

clearFeatureRequests(queue) == <<>>

\* mutant: getAllFeatureRequests hands out the module's own array
spreadIsShared_alias == TRUE

\* [...featureRequests] builds a new array: what the caller gets is not the
\* array the module variable holds
spreadIsShared == FALSE

\* the list getAllFeatureRequests resolves to: its items now, the items it had
\* when it was returned, and whether it is the module's own array
returnedList(queue) ==
    [items |-> getAllFeatureRequests(queue),
     seen |-> getAllFeatureRequests(queue),
     shared |-> spreadIsShared]

\* mutant: the comparator puts the oldest request first
newerFirst_ascending(a, b) == a.timestamp - b.timestamp

\* (a, b) => b.timestamp.getTime() - a.timestamp.getTime()
newerFirst(a, b) == b.timestamp - a.timestamp

RECURSIVE insertSorted(_, _)
\* Array.prototype.sort is stable: x goes after every element the comparator
\* does not order after it
insertSorted(x, sorted) ==
    IF sorted = <<>> THEN <<x>>
    ELSE IF newerFirst(Head(sorted), x) <= 0
         THEN <<Head(sorted)>> \o insertSorted(x, Tail(sorted))
         ELSE <<x>> \o sorted

RECURSIVE sortCopy(_, _)
\* [...list].sort(newerFirst)
sortCopy(list, sorted) ==
    IF list = <<>> THEN sorted
    ELSE sortCopy(Tail(list), insertSorted(Head(list), sorted))

\* the parameter's default value
DefaultCount == 5

\* list.slice(0, count): a negative count is taken from the end of the list
slice0(list, count) ==
    LET end == IF count < 0
               THEN (IF Len(list) + count < 0 THEN 0 ELSE Len(list) + count)
               ELSE (IF count > Len(list) THEN Len(list) ELSE count)
    IN SubSeq(list, 1, end)

getRecentFeatureRequests(queue, count) == slice0(sortCopy(queue, <<>>), count)

----------------------------------------------------------------------------
(* featureRequestAgent *)

FeatureBodies == {"dark_mode", "export_csv"}

\* the object JSON.parse yields for each well-formed body
FeatureData(body) ==
    CASE body = "dark_mode" ->
           [title |-> "Dark mode", description |-> "A dark colour theme",
            userGoal |-> "Less eye strain", exampleUseCase |-> "Working at night"]
      [] body = "export_csv" ->
           [title |-> "CSV export", description |-> "Export data as CSV",
            userGoal |-> "Share data", exampleUseCase |-> "Monthly report"]

ExtractionTexts == StructuredTexts(FeatureBodies)

FRSuccessText(fr) ==
    << "Thanks for your input! I've documented your request with the following details:",
       fr.title, fr.description, fr.userGoal, fr.exampleUseCase,
       "Your request has been added to our feature request queue." >>
FRClarifyText ==
    "I had trouble processing your feature request. Could you provide more details about what you're looking for?"
FRErrorText ==
    "I encountered an issue while processing your feature request. Please try again."

\* mutant: the clarification path hands control back to the supervisor
featureRequestParseFailure_handsBack(state, queue) ==
    [messages |-> Append(state.messages, Msg("assistant", Text(FRClarifyText), FRA)),
     agentState |-> [state.agentState EXCEPT !.taskCompleted = FALSE,
                                             !.currentAgent = PA],
     queue |-> queue, calls |-> 1, outcome |-> "fr_parse_failure"]

\* mutant: the clarification path starts the request list over
featureRequestParseFailure_clears(state, queue) ==
    [messages |-> Append(state.messages, Msg("assistant", Text(FRClarifyText), FRA)),
     agentState |-> [state.agentState EXCEPT !.taskCompleted = FALSE,
                                             !.featureRequests = <<>>],
     queue |-> queue, calls |-> 1, outcome |-> "fr_parse_failure"]

\* catch (jsonError): ask for clarification, stay on this worker
featureRequestParseFailure(state, queue) ==
    [messages |-> Append(state.messages, Msg("assistant", Text(FRClarifyText), FRA)),
     agentState |-> [state.agentState EXCEPT !.taskCompleted = FALSE],
     queue |-> queue, calls |-> 1, outcome |-> "fr_parse_failure"]

\* featureRequestAgent: resp is the outcome of the extraction oracle call,
\* queue the shared queue, clock the value new Date() reads.
featureRequestAgent(state, resp, queue, clock) ==
    IF ~resp.ok
    THEN [messages |-> Append(state.messages, Msg("assistant", Text(FRErrorText), FRA)),
          agentState |-> [state.agentState EXCEPT !.taskCompleted = FALSE],
          queue |-> queue, calls |-> 1, outcome |-> "fr_error"]
    ELSE LET featureRequestText == extractJsonText(resp.content) IN
         IF ~jsonParses(featureRequestText)
         THEN featureRequestParseFailure(state, queue)
         ELSE LET featureRequestData == FeatureData(featureRequestText.body)
                  featureRequest ==
                      [title |-> featureRequestData.title,
                       description |-> featureRequestData.description,
                       userGoal |-> featureRequestData.userGoal,
                       exampleUseCase |-> featureRequestData.exampleUseCase,
                       timestamp |-> clock]
              IN [messages |-> Append(state.messages,
                      Msg("assistant", FRSuccessText(featureRequest), FRA)),
                  agentState |->
                      [state.agentState EXCEPT
                          !.featureRequests =
                              Append(state.agentState.featureRequests, featureRequest),
                          !.taskCompleted = TRUE,
                          !.currentAgent = PA],
                  queue |-> addFeatureRequest(queue, featureRequest),
                  calls |-> 1, outcome |-> "fr_success"]

----------------------------------------------------------------------------
(* Research tools: researchTools.ts *)

knowledgeBase(keyword) ==
    CASE keyword = "blockchain" ->
           << "Blockchain is a distributed ledger technology that enables secure transactions without a central authority.",
              "The first blockchain was created as the underlying technology for Bitcoin by Satoshi Nakamoto in 2008.",
              "Smart contracts are self-executing contracts with the terms directly written into code on blockchain platforms like Ethereum." >>
      [] keyword = "machine learning" ->
           << "Machine learning is a subset of artificial intelligence that focuses on developing systems that learn from data.",
              "Supervised learning involves training models on labeled data, while unsupervised learning works with unlabeled data.",
              "Deep learning uses neural networks with many layers to process complex patterns in large amounts of data." >>
      [] keyword = "climate change" ->
           << "Climate change refers to long-term shifts in temperatures and weather patterns, primarily caused by human activities.",
              "The burning of fossil fuels is a major contributor to greenhouse gas emissions.",
              "Effects include rising sea levels, increased frequency of extreme weather events, and disruption of ecosystems." >>
      [] OTHER -> <<>>

\* toLowerCase().replace(/[^\w\s]/g, '') on one word of the vocabulary
cleanWord(w) ==
    CASE w = "What" -> "what"
      [] w = "Why" -> "why"
      [] w = "Climate" -> "climate"
      [] w = "CLIMATE" -> "climate"
      [] w = "change?" -> "change"
      [] w = "Change" -> "change"
      [] w = "it?" -> "it"
      [] w = "Best" -> "best"
      [] w = "Blockchain" -> "blockchain"
      [] w = "Machine" -> "machine"
      [] w = "?" -> ""
      [] w = "climate-change" -> "climatechange"
      [] w = "learning," -> "learning"
      [] OTHER -> w

RECURSIVE cleanTokens(_)
\* the cleaned question, token by token (whitespace is kept)
cleanTokens(q) ==
    IF q = <<>> THEN <<>> ELSE <<cleanWord(Head(q))>> \o cleanTokens(Tail(q))

RECURSIVE splitWords(_)
\* cleaned.split(/\s+/), without the empty strings length > 2 drops anyway
splitWords(toks) ==
    IF toks = <<>> THEN <<>>
    ELSE IF Head(toks) = WS \/ Head(toks) = ""
         THEN splitWords(Tail(toks))
         ELSE <<Head(toks)>> \o splitWords(Tail(toks))

stopWords ==
    {"the", "a", "an", "and", "in", "on", "at", "of", "to", "for", "with",
     "is", "are", "what", "why", "how", "when", "where", "who"}

RECURSIVE filterWords(_)
filterWords(words) ==
    IF words = <<>> THEN <<>>
    ELSE IF Head(words) \notin stopWords /\ Len(Head(words)) > 2
         THEN <<Head(words)>> \o filterWords(Tail(words))
         ELSE filterWords(Tail(words))

importantPhrases ==
    << <<"machine", WS, "learning">>, <<"artificial", WS, "intelligence">>,
       <<"blockchain">>, <<"climate", WS, "change">>, <<"quantum", WS, "computing">> >>

\* cleaned.includes(phrase), on tokens: the phrase's words follow each other
\* separated by one whitespace
includesPhrase(toks, phrase) ==
    \E i \in 1..Len(toks) :
        /\ i + Len(phrase) - 1 <= Len(toks)
        /\ SubSeq(toks, i, i + Len(phrase) - 1) = phrase

RECURSIVE countOf(_, _)
countOf(w, words) ==
    IF words = <<>> THEN 0
    ELSE (IF Head(words) = w THEN 1 ELSE 0) + countOf(w, Tail(words))

RECURSIVE distinctWords(_, _)
\* keys of wordFrequency in insertion order
distinctWords(words, seen) ==
    IF words = <<>> THEN <<>>
    ELSE IF Head(words) \in seen
         THEN distinctWords(Tail(words), seen)
         ELSE <<Head(words)>> \o distinctWords(Tail(words), seen \cup {Head(words)})

RECURSIVE insertByFrequency(_, _, _)
\* stable insertion: w goes after every key that is at least as frequent
insertByFrequency(w, sorted, words) ==
    IF sorted = <<>> THEN <<w>>
    ELSE IF countOf(Head(sorted), words) >= countOf(w, words)
         THEN <<Head(sorted)>> \o insertByFrequency(w, Tail(sorted), words)
         ELSE <<w>> \o sorted

RECURSIVE sortByFrequency(_, _, _)
sortByFrequency(keys, sorted, words) ==
    IF keys = <<>> THEN sorted
    ELSE sortByFrequency(Tail(keys),
                         insertByFrequency(Head(keys), sorted, words), words)

phraseText(phrase) ==
    IF phrase = <<>> THEN "" ELSE
    IF Len(phrase) = 1 THEN phrase[1] ELSE phrase[1] \o WS \o phrase[3]

\* mutant: the extraction never looks for the important phrases
extractKeywords_wordsOnly(question) ==
    LET filteredWords == filterWords(splitWords(cleanTokens(question)))
        ranked == sortByFrequency(distinctWords(filteredWords, {}), <<>>,
                                  filteredWords)
    IN SubSeq(ranked, 1, IF Len(ranked) < 3 THEN Len(ranked) ELSE 3)

extractKeywords(question) ==
    LET cleaned == cleanTokens(question)
        filteredWords == filterWords(splitWords(cleaned))
        hits == { i \in 1..Len(importantPhrases) :
                      includesPhrase(cleaned, importantPhrases[i]) }
    IN IF hits # {}
       THEN << phraseText(importantPhrases[CHOOSE i \in hits : \A j \in hits : i <= j]) >>
       ELSE LET ranked == sortByFrequency(distinctWords(filteredWords, {}), <<>>,
                                          filteredWords)
            IN SubSeq(ranked, 1, IF Len(ranked) < 3 THEN Len(ranked) ELSE 3)

RECURSIVE internalEntries(_)
internalEntries(keywords) ==
    IF keywords = <<>> THEN <<>>
    ELSE LET entries == knowledgeBase(Head(keywords))
         IN [i \in 1..Len(entries) |-> "[Internal Knowledge Base] " \o entries[i]]
            \o internalEntries(Tail(keywords))

GenericSources ==
    << "[Research] The research question appears to be outside our current knowledge domain.",
       "[Research] Consider refining the question or exploring more specific aspects of the topic." >>

ExternalSources(keyword) ==
    << "[External API] Based on recent research, the topic of " \o keyword
           \o " has seen significant developments in the past year.",
       "[External API] Experts in " \o keyword
           \o " suggest that continued research is necessary to fully understand its implications." >>

performResearch(question) ==
    LET keywords == extractKeywords(question)
        step1 == internalEntries(keywords)
        step2 == IF Len(keywords) > 0 /\ Len(step1) = 0
                 THEN ExternalSources(keywords[1]) ELSE step1
    IN IF Len(step2) = 0 THEN GenericSources ELSE step2

----------------------------------------------------------------------------
(* deepResearchAgent *)

\* texts the oracle may give as the research question
QuestionTexts ==
    { <<"What", WS, "causes", WS, "Climate", WS, "change?">>,
      <<WS, "Why", WS, "is", WS, "it?", WS>> }

AnswerTexts == { <<"Synthesised answer">> }

DRErrorText ==
    "I encountered an issue while researching your question. Would you mind rephrasing it or providing more context?"

\* mutant: a research result already stored is kept
researchCompleted_keepsFirst(agentState_, researchResult) ==
    [agentState_ EXCEPT !.researchResults = IF @ = None THEN Some(researchResult) ELSE @,
                        !.taskCompleted = TRUE,
                        !.currentAgent = PA]

\* mutant: the returned agentState is built anew, without ...state.agentState
researchCompleted_withoutSpread(agentState_, researchResult) ==
    [createInitialState.agentState EXCEPT !.researchResults = Some(researchResult),
                                          !.taskCompleted = TRUE,
                                          !.currentAgent = PA]

\* the agentState deepResearchAgent returns with its answer
researchCompleted(agentState_, researchResult) ==
    [agentState_ EXCEPT !.researchResults = Some(researchResult),
                        !.taskCompleted = TRUE,
                        !.currentAgent = PA]

\* mutant: the failure is not caught and the node's promise rejects
deepResearchFailure_rethrows(state, calls) ==
    [messages |-> state.messages, agentState |-> state.agentState,
     calls |-> calls, outcome |-> "threw"]

\* catch (error) of deepResearchAgent, after calls oracle calls
deepResearchFailure(state, calls) ==
    [messages |-> Append(state.messages, Msg("assistant", Text(DRErrorText), DRA)),
     agentState |-> [state.agentState EXCEPT !.taskCompleted = FALSE],
     calls |-> calls, outcome |-> "dr_error"]

\* deepResearchAgent: q is the outcome of the question oracle call, a of the
\* synthesis oracle call (made only when the first succeeded).
deepResearchAgent(state, q, a) ==
    IF ~q.ok \/ ~a.ok
    THEN deepResearchFailure(state, IF q.ok THEN 2 ELSE 1)
    ELSE LET researchQuestion == trim(q.content)
             sources == performResearch(researchQuestion)
             researchResult == [question |-> join(researchQuestion),
                                answer |-> join(a.content),
                                sources |-> sources]
         IN [messages |-> Append(state.messages,
                 Msg("assistant",
                     << "Here's what I found regarding", join(researchQuestion),
                        join(a.content), "My research drew from",
                        ToString(Len(sources)),
                        "sources. Would you like more details on any specific aspect?" >>,
                     DRA)),
             agentState |-> researchCompleted(state.agentState, researchResult),
             calls |-> 2, outcome |-> "dr_success"]

----------------------------------------------------------------------------
(* Reddit feed: redditApi.ts *)

MockPost(title, subreddit, id, upvotes, commentCount) ==
    [title |-> title,
     url |-> "https://reddit.com/r/" \o subreddit \o "/" \o id,
     subreddit |-> subreddit,          \* permalink.split('/')[2]
     upvotes |-> upvotes,
     commentCount |-> commentCount]

mockPosts ==
    << MockPost("GME Q1 Earnings Beat Expectations, Stock Up 8% in After Hours",
                "wallstreetbets", "mock1", 4281, 732),
       MockPost("DD: GME's NFT Marketplace Strategy and Future Revenue Projections",
                "Superstonk", "mock2", 2876, 412),
       MockPost("Ryan Cohen Just Purchased Another 100,000 Shares of GME",
                "GME", "mock3", 3542, 621),
       MockPost("GameStop Announces New Partnership with Major Game Publisher",
                "Superstonk", "mock4", 1932, 304),
       MockPost("Technical Analysis: GME Set for Potential Breakout This Week",
                "wallstreetbets", "mock5", 876, 203) >>

\* String.prototype.toLowerCase on subreddit names
toLowerCase(s) ==
    CASE s = "Superstonk" -> "superstonk"
      [] s = "SuperStonk" -> "superstonk"
      [] s = "GME" -> "gme"
      [] s = "WallStreetBets" -> "wallstreetbets"
      [] s = "Stocks" -> "stocks"
      [] OTHER -> s

RECURSIVE filterPosts(_, _)
filterPosts(posts, subredditSet) ==
    IF posts = <<>> THEN <<>>
    ELSE IF toLowerCase(Head(posts).subreddit) \in subredditSet
         THEN <<Head(posts)>> \o filterPosts(Tail(posts), subredditSet)
         ELSE filterPosts(Tail(posts), subredditSet)

\* mutant: the requested names are compared as they were typed
getMockRedditPosts_asTyped(subreddits) ==
    IF Len(subreddits) > 0 /\ subreddits[1] # ""
    THEN filterPosts(mockPosts, { subreddits[i] : i \in 1..Len(subreddits) })
    ELSE mockPosts

getMockRedditPosts(subreddits) ==
    IF Len(subreddits) > 0 /\ subreddits[1] # ""
    THEN filterPosts(mockPosts,
                     { toLowerCase(subreddits[i]) : i \in 1..Len(subreddits) })
    ELSE mockPosts

DefaultSubreddits == << "wallstreetbets", "stocks", "GME", "Superstonk" >>

\* fetchRedditPosts: an absent first argument takes the default list
fetchRedditPosts(subreddits, timeFrame) ==
    getMockRedditPosts(IF subreddits = None THEN DefaultSubreddits
                       ELSE subreddits[1])

----------------------------------------------------------------------------
(* gmeRedditSummaryAgent *)

FocusBodies == {"focus_default", "focus_superstonk"}

FocusData(body) ==
    CASE body = "focus_default" ->
           [subreddits |-> None, aspects |-> <<"sentiment">>, timeFrame |-> "latest"]
      [] body = "focus_superstonk" ->
           [subreddits |-> Some(<<"SuperStonk">>), aspects |-> <<"DD analysis">>,
            timeFrame |-> "week"]

FocusTexts == StructuredTexts(FocusBodies)

AnalysisBodies == {"analysis_full", "analysis_no_summaries"}

\* analysis_no_summaries is a JSON object without topPostsSummaries
AnalysisData(body) ==
    CASE body = "analysis_full" ->
           [sentiment |-> "mixed", mainTopics |-> <<"earnings">>,
            summary |-> "Mixed mood", topPostsSummaries |-> Some(<<"Earnings beat">>)]
      [] body = "analysis_no_summaries" ->
           [sentiment |-> "positive", mainTopics |-> <<"earnings">>,
            summary |-> "Upbeat", topPostsSummaries |-> None]

AnalysisTexts == StructuredTexts(AnalysisBodies)

GMEErrorText ==
    "I encountered an issue while fetching the latest GME information from Reddit. This could be due to API rate limits or connectivity issues. Would you like me to try again or focus on a specific aspect?"

\* the agentState gmeRedditSummaryAgent returns with its summary
redditCompleted(agentState_, redditSummary) ==
    [agentState_ EXCEPT !.redditSummary = Some(redditSummary),
                        !.taskCompleted = TRUE,
                        !.currentAgent = PA]

\* mutant: the failure path forgets the artifacts gathered so far
gmeRedditFailure_dropsArtifacts(state, calls) ==
    [messages |-> Append(state.messages, Msg("assistant", Text(GMEErrorText), GRA)),
     agentState |-> [state.agentState EXCEPT !.taskCompleted = FALSE,
                                             !.researchResults = None,
                                             !.redditSummary = None],
     calls |-> calls, outcome |-> "gme_error"]

\* mutant: the failure path returns without a reply
gmeRedditFailure_silent(state, calls) ==
    [messages |-> state.messages,
     agentState |-> [state.agentState EXCEPT !.taskCompleted = FALSE],
     calls |-> calls, outcome |-> "gme_error"]

\* catch (error) of gmeRedditSummaryAgent, after calls oracle calls
gmeRedditFailure(state, calls) ==
    [messages |-> Append(state.messages, Msg("assistant", Text(GMEErrorText), GRA)),
     agentState |-> [state.agentState EXCEPT !.taskCompleted = FALSE],
     calls |-> calls, outcome |-> "gme_error"]

\* gmeRedditSummaryAgent: f is the outcome of the focus oracle call, a of the
\* analysis oracle call (made only when the focus parsed).
gmeRedditSummaryAgent(state, f, a) ==
    LET focusParsed == f.ok /\ jsonParses(extractJsonText(f.content))
        analysisParsed == a.ok /\ jsonParses(extractJsonText(a.content))
        failed == gmeRedditFailure(state, IF focusParsed THEN 2 ELSE 1)
    IN IF ~focusParsed \/ ~analysisParsed THEN failed
       ELSE LET focus == FocusData(extractJsonText(f.content).body)
                redditPosts == fetchRedditPosts(focus.subreddits, focus.timeFrame)
                analysis == AnalysisData(extractJsonText(a.content).body)
            IN \* analysis.topPostsSummaries[i] on undefined is a TypeError
               IF analysis.topPostsSummaries = None /\ redditPosts # <<>> THEN failed
               ELSE LET summaries == IF analysis.topPostsSummaries = None THEN <<>>
                                     ELSE analysis.topPostsSummaries[1]
                        shown == SubSeq(redditPosts, 1,
                                        IF Len(redditPosts) < 5 THEN Len(redditPosts) ELSE 5)
                        topPosts ==
                            [i \in 1..Len(shown) |->
                                [title |-> shown[i].title,
                                 url |-> shown[i].url,
                                 upvotes |-> shown[i].upvotes,
                                 commentCount |-> shown[i].commentCount,
                                 summary |-> IF i <= Len(summaries) THEN summaries[i]
                                             ELSE "No summary available"]]
                        redditSummary == [topic |-> "GameStop (GME)",
                                          sentiment |-> analysis.sentiment,
                                          mainTopics |-> analysis.mainTopics,
                                          topPosts |-> topPosts]
                    IN [messages |-> Append(state.messages,
                            Msg("assistant",
                                << "Here's the latest on GME from Reddit:",
                                   analysis.sentiment, analysis.summary,
                                   "Would you like more details on any specific aspect?" >>,
                                GRA)),
                        agentState |-> redditCompleted(state.agentState, redditSummary),
                        calls |-> 2, outcome |-> "gme_success"]

----------------------------------------------------------------------------
(* buildAgentGraph: channels, router, edges *)

\* mutant: the channel keeps the node's list as it is
messagesReducer_replace(prev, next) == next

\* reducer of the messages channel: [...prev, ...next.slice(prev.length)]
messagesReducer(prev, next) == prev \o SubSeq(next, Len(prev) + 1, Len(next))

\* mutant: a completion flag once raised stays raised
agentStateReducer_stickyCompletion(prev, next) ==
    [next EXCEPT !.taskCompleted = prev.taskCompleted \/ next.taskCompleted]

\* reducer of the agentState channel: (_, next) => next
agentStateReducer(prev, next) == next

\* mutant: the decision also looks at the message history
router_byHistory(state) ==
    IF state.agentState.taskCompleted \/ Len(state.messages) > 1
    THEN PA ELSE state.agentState.currentAgent

router(state) ==
    IF state.agentState.taskCompleted THEN PA ELSE state.agentState.currentAgent

\* mutant: the supervisor's own identifier leads back to the supervisor node
conditionalEdges_selfLoop(decision) ==
    CASE decision = PA -> PA
      [] decision = FRA -> FRA
      [] decision = DRA -> DRA
      [] decision = GRA -> GRA
      [] OTHER -> "NO_DESTINATION"

\* mutant: two destinations of the routing table are exchanged
conditionalEdges_crossed(decision) ==
    CASE decision = PA -> "END"
      [] decision = FRA -> DRA
      [] decision = DRA -> FRA
      [] decision = GRA -> GRA
      [] OTHER -> "NO_DESTINATION"

\* the routing table of addConditionalEdges("PersonalAssistant", router, ...);
\* a decision the table does not hold has no destination
conditionalEdges(decision) ==
    CASE decision = PA -> "END"
      [] decision = FRA -> FRA
      [] decision = DRA -> DRA
      [] decision = GRA -> GRA
      [] OTHER -> "NO_DESTINATION"

\* mutant: a worker's edge leads straight to END
workerEdge_toEnd(worker) == "END"

\* addEdge(worker, "PersonalAssistant")
workerEdge(worker) == PA

entryPoint == PA

State == [messages |-> messages, agentState |-> agentState]

\* mutant: the node pushes its message onto the list it was handed
receivedAfter_pushed(state, out) == [state EXCEPT !.messages = out.messages]

\* What the state object handed to a node holds once the node has returned.
\* Every node builds its result with spreads ([...state.messages, m],
\* {...state.agentState, ...}) and assigns to nothing reachable from state;
\* were a spread the very object it spreads, the node's additions would show
\* in the object it received.
receivedAfter(state, out) ==
    IF spreadIsShared
    THEN [messages |-> out.messages, agentState |-> out.agentState]
    ELSE state

\* One superstep of the executor after node n returned out: merge the output
\* through the channels, resolve the next node, stop at END, fail on a
\* decision without destination or when the recursion limit is reached.
\* A node whose promise rejects (outcome "threw") makes graph.invoke reject.
\* said is what the node's (first) oracle call gave, kept in the history.
Superstep(n, out, said) ==
    LET merged == [messages |-> messagesReducer(messages, out.messages),
                   agentState |-> agentStateReducer(agentState, out.agentState)]
        next == IF n = PA THEN conditionalEdges(router(merged)) ELSE workerEdge(n)
    IN /\ messages' = merged.messages
       /\ agentState' = merged.agentState
       /\ steps' = steps + 1
       /\ trace' = Append(trace, [node |-> n,
                                  outcome |-> out.outcome,
                                  said |-> said,
                                  intact |-> receivedAfter(State, out) = State,
                                  fresh |-> ~spreadIsShared,
                                  done |-> merged.agentState.taskCompleted,
                                  decision |-> IF n = PA THEN router(merged)
                                               ELSE "(edge)"])
       /\ oracleCalls' = oracleCalls + out.calls
       /\ IF out.outcome = "threw" THEN pc' = "NodeError" /\ node' = n
          ELSE IF next = "END" THEN pc' = "END" /\ node' = "END"
          ELSE IF next = "NO_DESTINATION" THEN pc' = "RoutingError" /\ node' = n
          ELSE IF steps + 1 >= RecursionLimit THEN pc' = "RecursionError" /\ node' = next
          ELSE pc' = "running" /\ node' = next
       /\ UNCHANGED <<entry, passes, queueAtStart, lastPass, response>>
       /\ UNCHANGED reactVars
       /\ UNCHANGED <<concurrentVars, toolVars>>

NoSaid == [ok |-> TRUE, text |-> ""]

Running(n) == pc = "running" /\ node = n /\ entry \in {"handler", "graph"}

NoText == <<>>
NoStructuredText == StructuredText(FALSE, FALSE, Malformed)

\* what one oracle call may do: return one of the texts, or fail
OracleOutcomes(texts, blank) == { Reply(t) : t \in texts } \cup { Failure(blank) }

PersonalAssistantStep ==
    /\ Running(PA)
    /\ \E resp \in OracleOutcomes(ClassificationTexts, NoText) :
          Superstep(PA, personalAssistantAgent(State, resp),
                    [ok |-> resp.ok, text |-> join(trim(resp.content))])
    /\ UNCHANGED <<featureRequests, now>>

FeatureRequestStep ==
    /\ Running(FRA)
    /\ \E resp \in OracleOutcomes(ExtractionTexts, NoStructuredText) :
          LET out == featureRequestAgent(State, resp, featureRequests, now)
          IN /\ Superstep(FRA, out, resp)
             /\ featureRequests' = out.queue
             /\ now' = IF out.outcome = "fr_success" THEN now + 1 ELSE now

DeepResearchStep ==
    /\ Running(DRA)
    /\ \E q \in OracleOutcomes(QuestionTexts, NoText),
          a \in OracleOutcomes(AnswerTexts, NoText) :
          Superstep(DRA, deepResearchAgent(State, q, a), NoSaid)
    /\ UNCHANGED <<featureRequests, now>>

GmeRedditStep ==
    /\ Running(GRA)
    /\ \E f \in OracleOutcomes(FocusTexts, NoStructuredText),
          a \in OracleOutcomes(AnalysisTexts, NoStructuredText) :
          Superstep(GRA, gmeRedditSummaryAgent(State, f, a), NoSaid)
    /\ UNCHANGED <<featureRequests, now>>

----------------------------------------------------------------------------
(* handler and direct invocation *)

RECURSIVE assistantMessagesOf(_)
\* result.messages.filter(m => m.role === "assistant")
assistantMessagesOf(msgs) ==
    IF msgs = <<>> THEN <<>>
    ELSE IF Head(msgs).role = "assistant"
         THEN <<Head(msgs)>> \o assistantMessagesOf(Tail(msgs))
         ELSE assistantMessagesOf(Tail(msgs))

RECURSIVE messagesBy(_, _)
messagesBy(msgs, agentName) ==
    IF msgs = <<>> THEN <<>>
    ELSE IF Head(msgs).agentName = agentName
         THEN <<Head(msgs)>> \o messagesBy(Tail(msgs), agentName)
         ELSE messagesBy(Tail(msgs), agentName)

\* history: the pass left the feature-capture worker waiting for a clarification
clarificationPending(msgs) ==
    LET own == messagesBy(msgs, FRA)
    IN own # <<>> /\ Last(own).content = Text(FRClarifyText)

StartPass(how, init) ==
    /\ pc = "idle"
    /\ entry \in {"none", "handler", "graph"}
    /\ passes < MaxPasses
    /\ entry' = how
    /\ pc' = "running"
    /\ node' = entryPoint
    /\ steps' = 0
    /\ messages' = init.messages
    /\ agentState' = init.agentState
    /\ passes' = passes + 1
    /\ trace' = <<>>
    /\ oracleCalls' = 0
    /\ queueAtStart' = featureRequests
    /\ response' = <<>>
    /\ UNCHANGED <<featureRequests, now, lastPass>>
    /\ UNCHANGED reactVars
    /\ UNCHANGED <<concurrentVars, toolVars>>

\* handler(req): a fresh initial state plus the request's last message
handler ==
    \E userMessage \in UserMessages :
        LET initialState == createInitialState
        IN StartPass("handler",
                     [initialState EXCEPT
                         !.messages = Append(@, Msg("user", userMessage, Undefined))])

\* the exported graph invoked on the initial state as it is (no user message)
graphInvoke == StartPass("graph", createInitialState)

PassSummary == [retryFeatureCapture |-> clarificationPending(messages)]

\* graph.invoke resolved: handler returns the last assistant message
handlerReturn ==
    /\ pc = "END"
    /\ entry \in {"handler", "graph"}
    /\ pc' = "idle"
    /\ response' = IF entry = "handler"
                   THEN Last(assistantMessagesOf(messages)).content
                   ELSE response
    /\ lastPass' = PassSummary
    /\ UNCHANGED <<entry, node, steps, messages, agentState, featureRequests, now,
                   passes, trace, oracleCalls, queueAtStart>>
    /\ UNCHANGED reactVars
    /\ UNCHANGED <<concurrentVars, toolVars>>

Rejected == <<"(handler rejected)">>

\* graph.invoke rejected: the error propagates out of handler
handlerReject ==
    /\ pc \in {"RecursionError", "RoutingError", "NodeError"}
    /\ entry \in {"handler", "graph"}
    /\ pc' = "idle"
    /\ response' = IF entry = "handler" THEN Rejected ELSE response
    /\ lastPass' = PassSummary
    /\ UNCHANGED <<entry, node, steps, messages, agentState, featureRequests, now,
                   passes, trace, oracleCalls, queueAtStart>>
    /\ UNCHANGED reactVars
    /\ UNCHANGED <<concurrentVars, toolVars>>

----------------------------------------------------------------------------
(* Specification of the minimal router *)

NoPass == [retryFeatureCapture |-> FALSE]

Sessions == 1..MaxSessions

\* a handler call that has not been made yet
\* no tool has been called directly yet
NoCall == [op |-> "none"]

idleSession ==
    [pc |-> "idle", node |-> "none", steps |-> 0,
     state |-> createInitialState, pending |-> None]

Init ==
    /\ entry = "none"
    /\ pc = "idle"
    /\ node = "none"
    /\ steps = 0
    /\ messages = <<>>
    /\ agentState = createInitialState.agentState
    /\ featureRequests = <<>>
    /\ now = 0
    /\ passes = 0
    /\ nextAgent = ""
    /\ userInput = <<>>
    /\ featureRequestQueue = <<>>
    /\ currentMessages = <<>>
    /\ trace = <<>>
    /\ oracleCalls = 0
    /\ queueAtStart = <<>>
    /\ lastPass = NoPass
    /\ response = <<>>
    /\ sessions = [s \in Sessions |-> idleSession]
    /\ appendLog = <<>>
    /\ returned = <<>>
    /\ added = <<>>
    /\ toolCall = NoCall

Next ==
    \/ handler
    \/ graphInvoke
    \/ PersonalAssistantStep
    \/ FeatureRequestStep
    \/ DeepResearchStep
    \/ GmeRedditStep
    \/ handlerReturn
    \/ handlerReject

Spec == Init /\ [][Next]_vars

----------------------------------------------------------------------------
(* History of the current pass *)

outcome == IF trace = <<>> THEN "none" ELSE Last(trace).outcome

\* every classification the oracle gave in this pass named agent a
AlwaysClassifiedAs(a) ==
    \A i \in 1..Len(trace) :
        trace[i].node = PA => trace[i].said.ok /\ trace[i].said.text = a

----------------------------------------------------------------------------
(* Claims about the minimal router (specification Spec) *)

\* C1: every pass of the buildAgentGraph graph reaches END, whatever the
\* oracle answers: no pass is cut off by the executor's recursion limit.
\* (Stated as the claim; the code violates it: the supervisor classifies the
\* same user message again after every worker step.)
C1_EveryPassReachesEND == pc # "RecursionError"

\* C2: once a worker step has returned taskCompleted = TRUE, the next routing
\* decision is the supervisor's own identifier and no worker is invoked again
\* in that pass.  (Stated as the claim; the code violates it.)
C2_CompletionEndsPass ==
    \A i \in 1..Len(trace) :
        (trace[i].node \in Workers /\ trace[i].done)
            => \A j \in (i + 1)..Len(trace) :
                   /\ trace[j].node \notin Workers
                   /\ (j = i + 1 => trace[j].decision = PA)

\* C3: a handler call whose message the oracle classifies as the feature
\* worker, and whose extraction parses, ends with the shared queue exactly one
\* entry longer and returns the feature worker's reply naming the logged
\* title.  (Stated as the claim; the code violates it.)
C3_FeatureScenario ==
    ( /\ pc = "idle" /\ entry = "handler"
      /\ Len(trace) >= 2
      /\ AlwaysClassifiedAs(FRA)
      /\ \A i \in 1..Len(trace) :
             trace[i].node = FRA => trace[i].outcome = "fr_success" )
        => /\ Len(featureRequests) = Len(queueAtStart) + 1
           /\ response = FRSuccessText(featureRequests[Len(queueAtStart) + 1])

\* C4: when the oracle's text is none of the four declared node identifiers,
\* the routing decision is the supervisor's identifier and the pass halts at
\* END without an error.  (Stated as the claim; the code violates it.)
C4_UnknownNameFallsBack ==
    \A i \in 1..Len(trace) :
        (trace[i].node = PA /\ trace[i].said.ok /\ trace[i].said.text \notin Nodes)
            => trace[i].decision = PA /\ pc # "RoutingError"

\* C6: after a pass in which the feature worker asked for a clarification
\* (parse failure), the next handler pass runs the feature worker first,
\* without a supervisor step before it.  (Stated as the claim; the code
\* violates it.)
C6_RetryBypassesSupervisor ==
    ( /\ entry = "handler" /\ pc # "idle"
      /\ lastPass.retryFeatureCapture
      /\ trace # <<>> )
        => trace[1].node = FRA

\* C7: a feature worker step whose oracle output cannot be parsed appends
\* exactly the clarification message, leaves taskCompleted FALSE, currentAgent
\* on the feature worker, agentState.featureRequests and the shared queue
\* unchanged.
C7_ParseFailureKeepsStateAndQueue ==
    [][ ( /\ Running(FRA)
          /\ agentState.currentAgent = FRA
          /\ Len(trace') = Len(trace) + 1
          /\ Last(trace').said.ok
          /\ Last(trace').said.content.body = Malformed )
        => /\ messages' = Append(messages, Msg("assistant", Text(FRClarifyText), FRA))
           /\ agentState'.taskCompleted = FALSE
           /\ agentState'.currentAgent = FRA
           /\ agentState'.featureRequests = agentState.featureRequests
           /\ agentState'.researchResults = agentState.researchResults
           /\ featureRequests' = featureRequests ]_vars

C7_Witness ==
    /\ trace # <<>>
    /\ Last(trace).node = FRA
    /\ Last(trace).said.ok
    /\ Last(trace).said.content.body = Malformed
    /\ featureRequests # <<>>

\* C8: a pass started on a state without any user message makes no oracle
\* call, appends the greeting, leaves taskCompleted FALSE and currentAgent on
\* the supervisor, and halts at END after that single supervisor step.
C8_NoUserMessageGreets ==
    ( userMessagesOf(messages) = <<>> /\ trace # <<>> )
        => /\ Len(trace) = 1
           /\ trace[1].node = PA
           /\ oracleCalls = 0
           /\ Last(messages) = Msg("assistant", Text(Greeting), PA)
           /\ agentState.taskCompleted = FALSE
           /\ agentState.currentAgent = PA
           /\ trace[1].decision = PA
           /\ pc \in {"END", "idle"}

C8_Witness ==
    /\ entry = "graph"
    /\ pc = "END"
    /\ userMessagesOf(messages) = <<>>
    /\ Len(messages) = 2

----------------------------------------------------------------------------
(* The ReAct variant: messages, tools, channels *)

HumanMessage(content) == [type |-> "human", content |-> content, tool_calls |-> <<>>]
AIMessage(content) == [type |-> "ai", content |-> content, tool_calls |-> <<>>]
AIToolCall(call) == [type |-> "ai", content |-> <<>>, tool_calls |-> <<call>>]
ToolMessage(content) == [type |-> "tool", content |-> content, tool_calls |-> <<>>]

\* stateChannels.messages: x.concat(y)
concatMessages(x, y) == x \o y

\* stateChannels.userInput and stateChannels.nextAgent: the update wins
latest(x, y) == y

simulatedData ==
    << [author |-> "redditor1", score |-> 150, title |-> "GME to the moon again?"],
       [author |-> "diamond_hands", score |-> 50, title |-> "Holding GME strong"],
       [author |-> "paper_trader", score |-> -20, title |-> "GME down again"],
       [author |-> "ape_together", score |-> 200, title |-> Undefined],
       [author |-> "market_guru", score |-> 5, title |-> Undefined] >>

\* topic.toLowerCase() for the topics of the vocabulary
lowerTopic(t) ==
    CASE t = "GME" -> "gme"
      [] t = "GameStop" -> "gamestop"
      [] t = "Gme" -> "gme"
      [] OTHER -> t

\* mutant: the number of copies is rounded down
ceilDiv_floor(a, b) == a \div b

\* Math.ceil(a / b) for a >= 0 and b > 0
ceilDiv(a, b) == (a + b - 1) \div b

RECURSIVE fillFlat(_, _)
\* Array(n).fill(data).flat(): n copies of data, one after the other
fillFlat(n, data) == IF n <= 0 THEN <<>> ELSE data \o fillFlat(n - 1, data)

\* Array(ceil(limit / 5)).fill(simulatedData).flat().slice(0, limit)
repeatedData(limit) ==
    slice0(fillFlat(ceilDiv(limit, Len(simulatedData)), simulatedData), limit)

\* func of simulateRedditGmeFetcherTool: a refusal text, or the records
simulateRedditGmeFetcherTool(args) ==
    IF args.topic = "" \/ lowerTopic(args.topic) \notin {"gme", "gamestop"}
    THEN [records |-> <<>>,
          text |-> <<"This tool is currently focused on GME. Cannot fetch for", args.topic>>]
    ELSE [records |-> repeatedData(args.limit), text |-> <<"JSON">>]

\* toolsCondition of the graph library: "tools" when the last message carries
\* tool calls.  What it returns otherwise is decided by the library and not by
\* this source: the key the edge maps name ("end") or the library's own END
\* marker, which the edge maps do not name.
toolsCondition(msgs) ==
    IF Last(msgs).type = "ai" /\ Len(Last(msgs).tool_calls) > 0
    THEN {"tools"} ELSE {"end", "__end__"}

----------------------------------------------------------------------------
(* ReAct nodes *)

SUP == "supervisor"
FR_AGENT == "feature_request_agent"
R_AGENT == "research_agent"
R_TOOLS == "research_tool_node"
G_AGENT == "gme_reddit_agent"
G_TOOLS == "reddit_tool_node"

validNodes == <<FR_AGENT, R_AGENT, G_AGENT, "FINISH">>

Range(seq) == { seq[i] : i \in 1..Len(seq) }

\* texts the supervising oracle may give
SupervisorTexts ==
    { <<FR_AGENT>>, <<R_AGENT>>, <<G_AGENT>>, <<"FINISH">>,
      <<WS, R_AGENT, WS>>,
      <<"finish">>,
      <<"Route", WS, "to", WS, R_AGENT>> }

\* a node's partial update of the channels
Update(msgs, next) == [messages |-> msgs, nextAgent |-> next]

\* supervisorNode without the validNodes check
supervisorNode_unchecked(state, text) == Update(<<>>, Some(join(trim(text))))

\* supervisorNode, for an oracle call that returned text
supervisorNode(state, text) ==
    LET nextNodeName == join(trim(text))
    IN Update(<<>>, Some(IF nextNodeName \in Range(validNodes)
                         THEN nextNodeName ELSE "FINISH"))

FeatureOutputs ==
    { [title |-> "Dark mode", description |-> "A dark colour theme"] }

FRNodeSorry ==
    <<"Sorry, I had trouble formulating that feature request. Could you please try rephrasing?">>

\* mutant: the request is pushed before the extraction is known to have worked
featureRequestNode_pushesFirst(state, structured, queue, id) ==
    LET featureData == [id |-> id,
                        title |-> IF structured.ok THEN structured.content.title ELSE "",
                        description |-> IF structured.ok
                                        THEN structured.content.description ELSE ""]
    IN IF structured.ok
       THEN [update |-> Update(<< AIMessage(
                 << "OK, I've logged your feature request titled",
                    featureData.title, "(ID:", ToString(id), ")" >>) >>, None),
             queue |-> Append(queue, featureData),
             outcome |-> "logged"]
       ELSE [update |-> Update(<< AIMessage(FRNodeSorry) >>, None),
             queue |-> Append(queue, featureData),
             outcome |-> "sorry"]

\* featureRequestNode: structured is the outcome of the structured-output
\* chain (it throws on every failure of the extraction); id the fresh UUID
featureRequestNode(state, structured, queue, id) ==
    IF structured.ok
    THEN LET featureData == [id |-> id,
                             title |-> structured.content.title,
                             description |-> structured.content.description]
         IN [update |-> Update(<< AIMessage(
                 << "OK, I've logged your feature request titled",
                    featureData.title, "(ID:", ToString(id), ")" >>) >>, None),
             queue |-> Append(queue, featureData),
             outcome |-> "logged"]
    ELSE [update |-> Update(<< AIMessage(FRNodeSorry) >>, None),
          queue |-> queue,
          outcome |-> "sorry"]

\* mutant: the worker also writes the routing channel
agentNode_renominates(state, agentResponse) ==
    Update(<< agentResponse >>, Some("FINISH"))

\* researchAgentNode and gmeRedditAgentNode: the oracle's message is appended
agentNode(state, agentResponse) == Update(<< agentResponse >>, None)

\* messages the research oracle may answer with
ResearchResponses ==
    { AIToolCall([name |-> "tavily_search_results_json", query |-> "q"]),
      AIMessage(<<"Final research answer">>) }

RedditResponses ==
    { AIToolCall([name |-> "simulate_reddit_gme_fetcher", subreddit |-> "wallstreetbets",
                  topic |-> t, limit |-> 2]) : t \in {"GME", "AAPL"} }
      \cup { AIMessage(<<"Final GME summary">>) }

\* ToolNode(researchTools): one tool message per call; the search may fail
researchToolNode(state, searchOk) ==
    Update(<< ToolMessage(IF searchOk THEN <<"search results">>
                          ELSE <<"Error: search failed">>) >>, None)

\* ToolNode(redditTools)
redditToolNode(state) ==
    LET call == Last(state.messages).tool_calls[1]
    IN Update(<< ToolMessage(simulateRedditGmeFetcherTool(call).text
                             \o <<ToString(Len(simulateRedditGmeFetcherTool(call).records))>>) >>,
              None)

----------------------------------------------------------------------------
(* ReAct graph: edges and executor *)

\* addConditionalEdges("supervisor", state => state.nextAgent, {...})
supervisorEdges(decision) ==
    CASE decision = FR_AGENT -> FR_AGENT
      [] decision = R_AGENT -> R_AGENT
      [] decision = G_AGENT -> G_AGENT
      [] decision = "FINISH" -> "END"
      [] OTHER -> "NO_DESTINATION"

\* addConditionalEdges(agent, toolsCondition, {tools: toolNode, end: "supervisor"})
toolLoopEdges(decision, toolNode) ==
    CASE decision = "tools" -> toolNode
      [] decision = "end" -> SUP
      [] OTHER -> "NO_DESTINATION"

\* the node that follows n: decision is the nextAgent channel, verdict the
\* result of toolsCondition on the merged messages
reactEdge(n, decision, verdict) ==
    CASE n = SUP -> supervisorEdges(decision)
      [] n = FR_AGENT -> SUP
      [] n = R_AGENT -> toolLoopEdges(verdict, R_TOOLS)
      [] n = R_TOOLS -> R_AGENT
      [] n = G_AGENT -> toolLoopEdges(verdict, G_TOOLS)
      [] n = G_TOOLS -> G_AGENT

ReactState == [messages |-> messages, userInput |-> userInput, nextAgent |-> nextAgent]

NoVerdict == ""

\* what the supervisor step is recorded as: the identifier the oracle's text
\* trims to when it is a node of the list, "other" for any other text
nominated(text) ==
    IF join(trim(text)) \in Range(validNodes) THEN join(trim(text)) ELSE "other"

ReactRunning(n) == pc = "running" /\ node = n /\ entry = "conversation"

graphVars == <<agentState, featureRequests, now, queueAtStart, lastPass>>

\* the conversation-history messages node n puts in the prompt of its oracle
\* call: supervisorNode, researchAgentNode and gmeRedditAgentNode pass
\* state.messages, featureRequestNode passes state.messages.slice(-1), the tool
\* nodes call no oracle
promptMessages(n, state) ==
    CASE n \in {SUP, R_AGENT, G_AGENT} -> state.messages
      [] n = FR_AGENT -> SubSeq(state.messages, Len(state.messages), Len(state.messages))
      [] OTHER -> <<>>

\* One superstep of the compiled ReAct graph after node n returned update.
ReactSuperstep(n, update, verdict, label, calls) ==
    LET msgs == concatMessages(messages, update.messages)
        decision == IF update.nextAgent = None THEN nextAgent
                    ELSE latest(nextAgent, update.nextAgent[1])
        next == reactEdge(n, decision, verdict)
    IN /\ messages' = msgs
       /\ nextAgent' = decision
       /\ steps' = steps + 1
       /\ trace' = Append(trace, [node |-> n, outcome |-> label, said |-> NoSaid,
                                  done |-> FALSE, decision |-> decision,
                                  prompt |-> Len(promptMessages(n, ReactState))])
       /\ oracleCalls' = oracleCalls + calls
       /\ IF next = "END" THEN pc' = "END" /\ node' = "END"
          ELSE IF next = "NO_DESTINATION" THEN pc' = "RoutingError" /\ node' = n
          ELSE IF steps + 1 >= RecursionLimit THEN pc' = "RecursionError" /\ node' = next
          ELSE pc' = "running" /\ node' = next
       /\ UNCHANGED <<entry, passes, userInput, currentMessages, response>>
       /\ UNCHANGED graphVars
       /\ UNCHANGED <<concurrentVars, toolVars>>

\* a node whose oracle call fails throws: the graph run is rejected
NodeThrows(n) ==
    /\ pc' = "NodeError"
    /\ oracleCalls' = oracleCalls + 1
    /\ trace' = Append(trace, [node |-> n, outcome |-> "threw", said |-> NoSaid,
                               done |-> FALSE, decision |-> nextAgent,
                               prompt |-> Len(promptMessages(n, ReactState))])
    /\ UNCHANGED <<entry, node, steps, messages, passes, nextAgent, userInput,
                   featureRequestQueue, currentMessages, response>>
    /\ UNCHANGED graphVars
    /\ UNCHANGED <<concurrentVars, toolVars>>

SupervisorStep ==
    /\ ReactRunning(SUP)
    /\ \/ \E text \in SupervisorTexts :
             /\ ReactSuperstep(SUP, supervisorNode(ReactState, text), NoVerdict,
                               nominated(text), 1)
             /\ UNCHANGED featureRequestQueue
       \/ NodeThrows(SUP)

FeatureRequestNodeStep ==
    /\ ReactRunning(FR_AGENT)
    /\ \E structured \in OracleOutcomes(FeatureOutputs,
                                        [title |-> "", description |-> ""]) :
          LET out == featureRequestNode(ReactState, structured, featureRequestQueue,
                                        Len(featureRequestQueue) + 1)
          IN /\ ReactSuperstep(FR_AGENT, out.update, NoVerdict, out.outcome, 1)
             /\ featureRequestQueue' = out.queue

ResearchAgentStep ==
    /\ ReactRunning(R_AGENT)
    /\ \/ \E agentResponse \in ResearchResponses :
           \E verdict \in toolsCondition(Append(messages, agentResponse)) :
             /\ ReactSuperstep(R_AGENT, agentNode(ReactState, agentResponse), verdict,
                               verdict, 1)
             /\ UNCHANGED featureRequestQueue
       \/ NodeThrows(R_AGENT)

ResearchToolStep ==
    /\ ReactRunning(R_TOOLS)
    /\ \E searchOk \in BOOLEAN :
          ReactSuperstep(R_TOOLS, researchToolNode(ReactState, searchOk), NoVerdict,
                         "tool", 0)
    /\ UNCHANGED featureRequestQueue

GmeRedditAgentStep ==
    /\ ReactRunning(G_AGENT)
    /\ \/ \E agentResponse \in RedditResponses :
           \E verdict \in toolsCondition(Append(messages, agentResponse)) :
             /\ ReactSuperstep(G_AGENT, agentNode(ReactState, agentResponse), verdict,
                               verdict, 1)
             /\ UNCHANGED featureRequestQueue
       \/ NodeThrows(G_AGENT)

RedditToolStep ==
    /\ ReactRunning(G_TOOLS)
    /\ ReactSuperstep(G_TOOLS, redditToolNode(ReactState), NoVerdict, "tool", 0)
    /\ UNCHANGED featureRequestQueue

----------------------------------------------------------------------------
(* runConversation *)

ConversationInputs == { <<"What is new about GME on Reddit?">> }

\* mutant: the loop reads the next line without awaiting the run in flight
atPrompt_withoutAwait == pc \in {"idle", "running"}

\* the loop is at rl.question: every statement before it was awaited, so no
\* app.invoke of an earlier iteration is pending
atPrompt == pc = "idle"

\* mutant: the user's line is not put into the history
pushInput_skipped(history, text) == history

\* currentMessages.push(new HumanMessage(userInput))
pushInput(history, text) == Append(history, HumanMessage(text))

\* one iteration of the loop up to app.invoke(inputs, config)
conversationTurn ==
    /\ atPrompt
    /\ entry \in {"none", "conversation"}
    /\ passes < MaxPasses
    /\ \E text \in ConversationInputs :
          /\ currentMessages' = pushInput(currentMessages, text)
          /\ messages' = concatMessages(<<>>, pushInput(currentMessages, text))
          /\ userInput' = latest(<<>>, text)
    /\ nextAgent' = ""
    /\ entry' = "conversation"
    /\ pc' = "running"
    /\ node' = SUP
    /\ steps' = 0
    /\ passes' = passes + 1
    /\ trace' = <<>>
    /\ oracleCalls' = 0
    /\ response' = <<>>
    /\ UNCHANGED featureRequestQueue
    /\ UNCHANGED graphVars
    /\ UNCHANGED <<concurrentVars, toolVars>>

\* the user typed exit: the loop ends
conversationExit ==
    /\ atPrompt
    /\ entry \in {"none", "conversation"}
    /\ pc' = "closed"
    /\ entry' = "conversation"
    /\ response' = <<"Goodbye!">>
    /\ UNCHANGED <<node, steps, messages, passes, trace, oracleCalls>>
    /\ UNCHANGED reactVars
    /\ UNCHANGED graphVars
    /\ UNCHANGED <<concurrentVars, toolVars>>

\* app.invoke resolved: the history becomes the final state's messages
conversationResult ==
    /\ pc = "END"
    /\ entry = "conversation"
    /\ currentMessages' = messages
    /\ response' = IF messages = <<>> THEN <<"[No response generated]">>
                   ELSE IF Last(messages).type = "ai" THEN Last(messages).content
                   ELSE <<"[State:", Last(messages).type, "]">>
    /\ pc' = "idle"
    /\ UNCHANGED <<entry, node, steps, messages, passes, trace, oracleCalls,
                   nextAgent, userInput, featureRequestQueue>>
    /\ UNCHANGED graphVars
    /\ UNCHANGED <<concurrentVars, toolVars>>

ConversationSorry == <<"Sorry, I encountered an error. Please try again.">>

\* app.invoke rejected: the error is logged, a fixed apology is printed and
\* the loop goes on; the history keeps the user's message and nothing else
conversationCatch ==
    /\ pc \in {"RecursionError", "RoutingError", "NodeError"}
    /\ entry = "conversation"
    /\ pc' = "idle"
    /\ response' = ConversationSorry
    /\ UNCHANGED <<entry, node, steps, messages, passes, trace, oracleCalls>>
    /\ UNCHANGED reactVars
    /\ UNCHANGED graphVars
    /\ UNCHANGED <<concurrentVars, toolVars>>

NextReact ==
    \/ conversationTurn
    \/ conversationExit
    \/ SupervisorStep
    \/ FeatureRequestNodeStep
    \/ ResearchAgentStep
    \/ ResearchToolStep
    \/ GmeRedditAgentStep
    \/ RedditToolStep
    \/ conversationResult
    \/ conversationCatch

SpecReact == Init /\ [][NextReact]_vars


\* both programs of the repository: a behaviour runs the one it starts with
NextAll == Next \/ NextReact

SpecAll == Init /\ [][NextAll]_vars

----------------------------------------------------------------------------
(* Claims about the ReAct graph *)

supervisorSteps == { i \in 1..Len(trace) : trace[i].node = SUP /\ trace[i].outcome # "threw" }

\* C5: after every supervisorNode step nextAgent is one of the four listed
\* names whatever text the oracle gave, and a text that is none of them
\* yields FINISH: the pass ends at END with that step, no worker runs after it.
C5_SupervisorDecisionIsValid ==
    entry = "conversation" =>
        /\ supervisorSteps # {} => nextAgent \in Range(validNodes)
        /\ \A i \in supervisorSteps :
              /\ trace[i].decision \in Range(validNodes)
              /\ trace[i].outcome = "other" =>
                    /\ trace[i].decision = "FINISH"
                    /\ i = Len(trace)
                    /\ pc \in {"END", "idle", "closed"}
                    /\ node = "END"

C5_Witness ==
    /\ entry = "conversation"
    /\ pc = "END"
    /\ Len(trace) = 3
    /\ trace[1].node = SUP /\ trace[1].decision = FR_AGENT
    /\ trace[2].node = FR_AGENT
    /\ trace[3].node = SUP /\ trace[3].outcome = "other" /\ nextAgent = "FINISH"

toolLoopAgentSteps == { i \in 1..Len(trace) : trace[i].node \in {R_AGENT, G_AGENT} }

\* history: the oracle answered every worker step of the pass with a tool call
AlwaysRequestsTools ==
    /\ toolLoopAgentSteps # {}
    /\ \A i \in toolLoopAgentSteps : trace[i].outcome = "tools"

\* C10: when the oracle answers every worker step with a tool call, the tool
\* loop stops within a bound of its own and the pass ends with the worker's
\* apologetic reply as the last message, not with the executor giving up.
C10_ToolLoopBounded ==
    (entry = "conversation" /\ pc # "running" /\ AlwaysRequestsTools)
        => /\ pc \notin {"RecursionError", "RoutingError", "NodeError"}
           /\ Last(messages).type = "ai"
           /\ Last(messages).tool_calls = <<>>

----------------------------------------------------------------------------
(* Claims about both message channels *)

\* lists a node could hand to the messages channel instead of the current
\* list plus one message: every shorter list, and a one-message list
ShorterOutputs ==
    { SubSeq(messages, 1, k) : k \in 0..Len(messages) }
        \cup { << messages[k] >> : k \in 1..Len(messages) }

\* the messages channel of the program that is running
messagesChannel(prev, next) ==
    IF entry = "conversation" THEN concatMessages(prev, next)
    ELSE messagesReducer(prev, next)

\* C9: across every step of one pass, in the minimal graph and in the ReAct
\* graph, the message sequence before the step is a prefix of the sequence
\* after it, and the messages channel keeps that even for a node output
\* shorter than the current list.
C9_MessagesOnlyGrow ==
    [][ passes' = passes
        => /\ IsPrefix(messages, messages')
           /\ \A next \in ShorterOutputs :
                  IsPrefix(messages, messagesChannel(messages, next)) ]_vars

C9_Witness ==
    /\ Len(trace) >= 3
    /\ Len(messages) = 2 + Len(trace)
    /\ \E i \in 1..Len(trace) : trace[i].outcome \in {"fr_parse_failure", "dr_error"}
    /\ \E i \in 1..Len(trace) : trace[i].outcome \in {"fr_success", "gme_success"}


----------------------------------------------------------------------------
(* Claims about the nodes of the minimal graph *)

FailureOutcomes == {"pa_error", "fr_error", "fr_parse_failure", "dr_error", "gme_error"}
SuccessOutcomes == {"fr_success", "dr_success", "gme_success"}

InGraph == entry \in {"handler", "graph"}

\* messages a pass starts with: the system prompt, and the user's message
\* when the pass came through handler
initialLength == IF entry = "handler" THEN 2 ELSE 1

\* C11: every node of the minimal graph returns a state and never hands an
\* exception to the executor, whatever the oracle gives and whether an oracle
\* call, the parsing or a tool call fails: no run ends on a node error, and
\* each step, failed or not, left exactly one more assistant message signed by
\* its node.
C11_NodesNeverThrow ==
    InGraph =>
        /\ pc # "NodeError"
        /\ \A i \in 1..Len(trace) : trace[i].outcome # "threw"
        /\ Len(messages) = initialLength + Len(trace)
        /\ \A i \in 1..Len(trace) :
              /\ messages[initialLength + i].role = "assistant"
              /\ messages[initialLength + i].agentName = trace[i].node
        /\ agentState.taskCompleted \in BOOLEAN

C11_Witness ==
    /\ entry = "handler"
    /\ pc = "END"
    /\ Len(trace) = 3
    /\ trace[2].outcome \in {"dr_error", "gme_error", "fr_error"}
    /\ trace[3].outcome = "pa_error"


\* C12: in the ReAct graph an oracle call that fails inside supervisorNode,
\* researchAgentNode or gmeRedditAgentNode is recovered inside the node: the
\* node still returns a state and the graph run is never aborted by it.
C12_OracleFailureIsRecovered ==
    entry = "conversation" =>
        /\ pc # "NodeError"
        /\ \A i \in 1..Len(trace) : trace[i].outcome # "threw"

----------------------------------------------------------------------------
(* Claims about the two tool-using workers of the minimal graph *)

ApologyOf(n) == IF n = DRA THEN Text(DRErrorText) ELSE Text(GMEErrorText)

\* a step of node n of the minimal graph that took branch o
StepOf(n, o) ==
    /\ Running(n)
    /\ Len(trace') = Len(trace) + 1
    /\ Last(trace').node = n
    /\ Last(trace').outcome = o

\* C13: when deepResearchAgent or gmeRedditSummaryAgent fails at any point
\* (an oracle call, the parsing of its output, the use of the tool's result)
\* the step appends exactly one apologetic assistant message, leaves
\* researchResults, redditSummary and featureRequests as they were, sets
\* taskCompleted to false and leaves currentAgent unchanged.
C13_WorkerFailureKeepsArtifacts ==
    [][ \A n \in {DRA, GRA} :
          (StepOf(n, "dr_error") \/ StepOf(n, "gme_error"))
            => /\ messages' = Append(messages, Msg("assistant", ApologyOf(n), n))
               /\ agentState'.researchResults = agentState.researchResults
               /\ agentState'.redditSummary = agentState.redditSummary
               /\ agentState'.featureRequests = agentState.featureRequests
               /\ agentState'.taskCompleted = FALSE
               /\ agentState'.currentAgent = agentState.currentAgent
               /\ agentState'.currentAgent = n ]_vars

\* a failure of the social-summary worker after a research result was stored
C13_Witness ==
    /\ InGraph
    /\ Len(trace) = 4
    /\ trace[2].outcome = "dr_success"
    /\ trace[4].outcome = "gme_error"
    /\ agentState.researchResults # None
    /\ ~agentState.taskCompleted
    /\ agentState.currentAgent = GRA


\* the reply appended by the step just taken
reply == Last(messages')

\* C14: when deepResearchAgent or gmeRedditSummaryAgent produces its final
\* answer the state has taskCompleted=true, currentAgent=PersonalAssistant and
\* the worker's artifact field holds this turn's result (the one the reply
\* reports), in place of whatever the field held before.
C14_FinalAnswerStoresArtifact ==
    [][ /\ StepOf(DRA, "dr_success") =>
            /\ agentState'.taskCompleted
            /\ agentState'.currentAgent = PA
            /\ agentState'.researchResults # None
            /\ LET r == agentState'.researchResults[1]
               IN /\ reply.agentName = DRA
                  /\ r.question = reply.content[2]
                  /\ r.answer = reply.content[3]
                  /\ ToString(Len(r.sources)) = reply.content[5]
                  /\ \E q \in QuestionTexts :
                        /\ r.question = join(trim(q))
                        /\ r.sources = performResearch(trim(q))
        /\ StepOf(GRA, "gme_success") =>
            /\ agentState'.taskCompleted
            /\ agentState'.currentAgent = PA
            /\ agentState'.redditSummary # None
            /\ LET r == agentState'.redditSummary[1]
               IN /\ reply.agentName = GRA
                  /\ r.topic = "GameStop (GME)"
                  /\ r.sentiment = reply.content[2]
                  /\ Len(r.topPosts) <= 5
                  /\ \E f \in FocusBodies :
                        Len(r.topPosts) <= Len(fetchRedditPosts(FocusData(f).subreddits,
                                                                FocusData(f).timeFrame)) ]_vars

\* a second research answer in one pass replaced the first
C14_Witness ==
    /\ InGraph
    /\ Len(trace) = 4
    /\ trace[2].outcome = "dr_success"
    /\ trace[4].outcome = "dr_success"
    /\ messages[initialLength + 2].content[2] # messages[initialLength + 4].content[2]
    /\ agentState.researchResults[1].question = messages[initialLength + 4].content[2]
    /\ agentState.taskCompleted


----------------------------------------------------------------------------
(* Claims about agentState across steps *)

AgentStateFields ==
    {"currentAgent", "taskCompleted", "featureRequests", "researchResults", "redditSummary"}

\* the agentState fields the branch o of a node assigns; the others come from
\* the spread of state.agentState
fieldsSetBy(o) ==
    CASE o \in {"greeting", "pa_error", "routed"} -> {"currentAgent", "taskCompleted"}
      [] o = "fr_success" -> {"featureRequests", "taskCompleted", "currentAgent"}
      [] o = "dr_success" -> {"researchResults", "taskCompleted", "currentAgent"}
      [] o = "gme_success" -> {"redditSummary", "taskCompleted", "currentAgent"}
      [] OTHER -> {"taskCompleted"}

\* a node step of the minimal graph
NodeStep == InGraph /\ pc = "running" /\ Len(trace') = Len(trace) + 1

\* C15: across any sequence of node steps every agentState field the running
\* node does not set keeps the value it had before the step: the executor
\* replaces agentState by the node's output and the node carries the other
\* fields forward.
C15_UnsetFieldsCarriedForward ==
    [][ NodeStep =>
          \A f \in AgentStateFields \ fieldsSetBy(Last(trace').outcome) :
              agentState'[f] = agentState[f] ]_vars

\* a feature request and a research result both survived the supervisor step
\* that followed them
C15_Witness ==
    /\ InGraph
    /\ Len(trace) = 4
    /\ trace[2].outcome = "fr_success"
    /\ trace[3].node = PA
    /\ trace[4].outcome = "dr_success"
    /\ Len(agentState.featureRequests) = 1
    /\ agentState.researchResults # None


\* C16: agentState.featureRequests is append-only over node steps: its value
\* before a step is a prefix of its value after, a successful feature-capture
\* step adds exactly one entry (the request it reports), and every other step
\* and every failure path leaves it as it was.
C16_FeatureRequestsAppendOnly ==
    [][ NodeStep =>
          /\ IsPrefix(agentState.featureRequests, agentState'.featureRequests)
          /\ IF Last(trace').outcome = "fr_success"
             THEN /\ Len(agentState'.featureRequests) = Len(agentState.featureRequests) + 1
                  /\ reply.content = FRSuccessText(Last(agentState'.featureRequests))
             ELSE agentState'.featureRequests = agentState.featureRequests ]_vars

\* two requests captured in one pass
C16_Witness ==
    /\ InGraph
    /\ Len(trace) = 4
    /\ trace[2].outcome = "fr_success"
    /\ trace[4].outcome = "fr_success"
    /\ Len(agentState.featureRequests) = 2
    /\ agentState.featureRequests[1].timestamp < agentState.featureRequests[2].timestamp


\* C17: in every state of a pass of the minimal graph taskCompleted is true
\* only if the most recent message was appended by a worker's success path
\* (its final answer) and currentAgent is PersonalAssistant; the supervisor
\* and every failure path of every node leave taskCompleted false.
C17_CompletedOnlyAfterWorkerSuccess ==
    InGraph =>
        /\ agentState.taskCompleted =>
              /\ trace # <<>>
              /\ Last(trace).node \in Workers
              /\ Last(trace).outcome \in SuccessOutcomes
              /\ Last(messages).agentName = Last(trace).node
              /\ agentState.currentAgent = PA
        /\ \A i \in 1..Len(trace) :
              (trace[i].node = PA \/ trace[i].outcome \in FailureOutcomes)
                  => ~trace[i].done

\* a completion, then the supervisor step that lowers the flag again
C17_Witness ==
    /\ InGraph
    /\ Len(trace) = 3
    /\ trace[2].outcome \in SuccessOutcomes
    /\ trace[2].done
    /\ trace[3].node = PA
    /\ ~agentState.taskCompleted


\* C18: whenever the executor of the minimal graph hands control to a worker
\* node, the state the worker receives has taskCompleted=false and
\* currentAgent equal to that worker's own identifier.
C18_WorkerReceivesItsOwnHandoff ==
    \A w \in Workers :
        Running(w) => /\ ~agentState.taskCompleted
                      /\ agentState.currentAgent = w
                      /\ trace # <<>>
                      /\ Last(trace).node = PA
                      /\ Last(trace).decision = w

\* a second handoff in the pass, after a worker had completed
C18_Witness ==
    /\ Running(DRA)
    /\ Len(trace) = 3
    /\ trace[2].node = FRA
    /\ trace[2].done
    /\ agentState.currentAgent = DRA
    /\ ~agentState.taskCompleted


----------------------------------------------------------------------------
(* Claims about concurrency *)

\* the loop of runConversation invokes the graph
invokes == entry' = "conversation" /\ passes' = passes + 1

\* C19: in runConversation the graph is never invoked for a user input while
\* the invocation for an earlier input is in flight: an invocation starts only
\* when no run is under way, and after the first one only once the earlier
\* one has returned or thrown and its outcome has been shown.
C19_OneInvocationAtATime ==
    [][ invokes =>
          /\ pc = "idle"
          /\ passes > 0 => /\ response # <<>>
                           /\ trace # <<>>
                           /\ \/ Last(trace).decision = "FINISH" /\ currentMessages = messages
                              \/ response = ConversationSorry ]_vars

\* the second invocation of a conversation is under way
C19_Witness ==
    /\ entry = "conversation"
    /\ passes = 2
    /\ pc = "running"
    /\ Len(trace) >= 1
    /\ Len(currentMessages) >= 2


----------------------------------------------------------------------------
(* Several handler calls in flight at once *)

(* Each call of handler builds its own graph and its own state; the calls   *)
(* share the module-level queue of featureRequestQueue.ts and the clock.    *)
(* A call runs until its next await and then lets the others run.  The      *)
(* oracle names the feature worker or the supervisor here: the other two    *)
(* workers never touch the queue.  A session keeps the agentState of its    *)
(* pass; the messages it appends are private to it and are not kept.        *)

sequentialVars == <<entry, pc, node, steps, messages, agentState, passes, trace,
                    oracleCalls, queueAtStart, lastPass, response>>

SessionUserMessage == Text("I wish the app had dark mode")

SessionClassificationTexts == { <<FRA>>, <<PA>> }

SessionExtractionTexts ==
    { StructuredText(FALSE, FALSE, "dark_mode"), StructuredText(FALSE, FALSE, Malformed) }

\* the state a session's node is called with
sessionState(s) == sessions[s].state

\* the session's executor after its node returned out: the agentState channel
\* takes the output, the edge is resolved, the step is counted
sessionSuperstep(s, n, out) ==
    LET merged == [messages |-> sessionState(s).messages,
                   agentState |-> agentStateReducer(sessionState(s).agentState,
                                                    out.agentState)]
        next == IF n = PA THEN conditionalEdges(router(merged)) ELSE workerEdge(n)
        count == sessions[s].steps + 1
    IN [pc |-> IF next = "END" THEN "END"
               ELSE IF next = "NO_DESTINATION" THEN "RoutingError"
               ELSE IF count >= RecursionLimit THEN "RecursionError"
               ELSE "running",
        node |-> IF next \in {"END", "NO_DESTINATION"} THEN n ELSE next,
        steps |-> count,
        state |-> merged,
        pending |-> None]

\* handler(req) up to the first await inside graph.invoke
sessionHandler(s) ==
    /\ sessions[s].pc = "idle"
    /\ sessions' = [sessions EXCEPT ![s] =
           [pc |-> "running", node |-> entryPoint, steps |-> 0,
            state |-> [createInitialState EXCEPT
                          !.messages = Append(@, Msg("user", SessionUserMessage, Undefined))],
            pending |-> None]]
    /\ UNCHANGED <<featureRequests, now, appendLog>>
    /\ UNCHANGED <<sequentialVars, reactVars, toolVars>>

\* the classification call of the session's supervisor resolves or rejects
sessionPersonalAssistant(s) ==
    /\ sessions[s].pc = "running"
    /\ sessions[s].node = PA
    /\ \E resp \in OracleOutcomes(SessionClassificationTexts, NoText) :
          sessions' = [sessions EXCEPT ![s] =
              sessionSuperstep(s, PA, personalAssistantAgent(sessionState(s), resp))]
    /\ UNCHANGED <<featureRequests, now, appendLog>>
    /\ UNCHANGED <<sequentialVars, reactVars, toolVars>>

\* the extraction call of the session's feature worker resolves or rejects;
\* on success the request is stamped and pushed in the same turn of the event
\* loop, and the worker then awaits the promise of addFeatureRequest
sessionFeatureRequest(s) ==
    /\ sessions[s].pc = "running"
    /\ sessions[s].node = FRA
    /\ \E resp \in OracleOutcomes(SessionExtractionTexts, NoStructuredText) :
          LET out == featureRequestAgent(sessionState(s), resp, featureRequests, now)
          IN IF out.outcome = "fr_success"
             THEN /\ featureRequests' = out.queue
                  /\ now' = now + 1
                  /\ appendLog' = Append(appendLog,
                                         [session |-> s,
                                          request |-> Last(out.agentState.featureRequests)])
                  /\ sessions' = [sessions EXCEPT
                                     ![s].pc = "awaitAdd",
                                     ![s].pending = Some(out)]
             ELSE /\ sessions' = [sessions EXCEPT ![s] = sessionSuperstep(s, FRA, out)]
                  /\ UNCHANGED <<featureRequests, now, appendLog>>
    /\ UNCHANGED <<sequentialVars, reactVars, toolVars>>

\* await addFeatureRequest(...) resumes: the worker returns its state
sessionFeatureRequestResumes(s) ==
    /\ sessions[s].pc = "awaitAdd"
    /\ sessions' = [sessions EXCEPT ![s] =
                       sessionSuperstep(s, FRA, sessions[s].pending[1])]
    /\ UNCHANGED <<featureRequests, now, appendLog>>
    /\ UNCHANGED <<sequentialVars, reactVars, toolVars>>

\* graph.invoke settles: handler returns or rejects
sessionSettles(s) ==
    /\ sessions[s].pc \in {"END", "RecursionError", "RoutingError"}
    /\ sessions' = [sessions EXCEPT ![s].pc =
                       IF sessions[s].pc = "END" THEN "returned" ELSE "rejected"]
    /\ UNCHANGED <<featureRequests, now, appendLog>>
    /\ UNCHANGED <<sequentialVars, reactVars, toolVars>>

NextConcurrent ==
    \E s \in Sessions :
        \/ sessionHandler(s)
        \/ sessionPersonalAssistant(s)
        \/ sessionFeatureRequest(s)
        \/ sessionFeatureRequestResumes(s)
        \/ sessionSettles(s)

SpecConcurrent == Init /\ [][NextConcurrent]_vars


\* history: the requests session s has pushed, in order
RECURSIVE pushedBy(_, _)
pushedBy(log, s) ==
    IF log = <<>> THEN <<>>
    ELSE IF Head(log).session = s
         THEN <<Head(log).request>> \o pushedBy(Tail(log), s)
         ELSE pushedBy(Tail(log), s)

\* the requests a session knows it has pushed: those of its agentState, and
\* the one whose addFeatureRequest promise it is awaiting
knownBy(s) ==
    IF sessions[s].pending = None
    THEN sessions[s].state.agentState.featureRequests
    ELSE sessions[s].pending[1].agentState.featureRequests

\* C20: with several handler passes in flight and interleaved at their await
\* points, the appends to the shared queue are serialized: every
\* addFeatureRequest call left exactly one entry (none lost, none twice) and
\* getAllFeatureRequests lists the entries in the order the appends ran.
C20_AppendsAreSerialized ==
    /\ Len(getAllFeatureRequests(featureRequests)) = Len(appendLog)
    /\ \A i \in 1..Len(appendLog) :
          getAllFeatureRequests(featureRequests)[i] = appendLog[i].request
    /\ \A s \in Sessions : pushedBy(appendLog, s) = knownBy(s)

\* two passes interleaved: the second session pushed between two pushes of
\* the first, while the first was awaiting
C20_Witness ==
    /\ Len(featureRequests) = 3
    /\ appendLog[1].session = 1
    /\ appendLog[2].session = 2
    /\ appendLog[3].session = 1
    /\ sessions[2].pc = "awaitAdd"
    /\ sessions[1].pc = "awaitAdd"

----------------------------------------------------------------------------
(* The tools called directly: the queue module, the research tool, router *)

\* Longest queue explored when the queue module is called directly.
MaxQueue == 3

\* timestamps of the requests pushed directly, in any order
Stamps == {1, 2, 3}

ToolRequests ==
    { [title |-> FeatureData("dark_mode").title,
       description |-> FeatureData("dark_mode").description,
       userGoal |-> FeatureData("dark_mode").userGoal,
       exampleUseCase |-> FeatureData("dark_mode").exampleUseCase,
       timestamp |-> t] : t \in Stamps }

ToolsIdle == entry = "none" /\ pc = "idle"

\* a push on the module's array shows in every list that is that array
afterPush(list, queue) ==
    IF list.shared THEN [list EXCEPT !.items = queue] ELSE list

\* after featureRequests = [] the module holds a new array: a list that was
\* the old array keeps its items and is no longer the module's
afterReassign(list) == [list EXCEPT !.shared = FALSE]

addFeatureRequestCall ==
    /\ ToolsIdle
    /\ Len(featureRequests) < MaxQueue
    /\ \E request \in ToolRequests :
          /\ featureRequests' = addFeatureRequest(featureRequests, request)
          /\ added' = Append(added, request)
          /\ returned' = [i \in 1..Len(returned) |->
                             afterPush(returned[i], featureRequests')]
          /\ toolCall' = [op |-> "addFeatureRequest", input |-> request,
                          result |-> request]
    /\ UNCHANGED <<entry, pc, node, steps, messages, agentState, now, passes,
                   trace, oracleCalls, queueAtStart, lastPass, response>>
    /\ UNCHANGED <<reactVars, concurrentVars>>

getAllFeatureRequestsCall ==
    /\ ToolsIdle
    /\ returned' = << returnedList(featureRequests) >>
    /\ toolCall' = [op |-> "getAllFeatureRequests", input |-> <<>>,
                    result |-> getAllFeatureRequests(featureRequests)]
    /\ UNCHANGED <<entry, pc, node, steps, messages, agentState, featureRequests,
                   now, passes, trace, oracleCalls, queueAtStart, lastPass,
                   response, added>>
    /\ UNCHANGED <<reactVars, concurrentVars>>

\* the counts getRecentFeatureRequests is called with; DefaultCount stands for
\* a call without argument
Counts == (-1 .. MaxQueue + 1) \cup {DefaultCount}

getRecentFeatureRequestsCall ==
    /\ ToolsIdle
    /\ \E count \in Counts :
          toolCall' = [op |-> "getRecentFeatureRequests", input |-> count,
                       result |-> getRecentFeatureRequests(featureRequests, count)]
    /\ UNCHANGED <<entry, pc, node, steps, messages, agentState, featureRequests,
                   now, passes, trace, oracleCalls, queueAtStart, lastPass,
                   response, returned, added>>
    /\ UNCHANGED <<reactVars, concurrentVars>>

clearFeatureRequestsCall ==
    /\ ToolsIdle
    /\ featureRequests' = clearFeatureRequests(featureRequests)
    /\ added' = <<>>
    /\ returned' = [i \in 1..Len(returned) |-> afterReassign(returned[i])]
    /\ toolCall' = [op |-> "clearFeatureRequests", input |-> <<>>, result |-> <<>>]
    /\ UNCHANGED <<entry, pc, node, steps, messages, agentState, now, passes,
                   trace, oracleCalls, queueAtStart, lastPass, response>>
    /\ UNCHANGED <<reactVars, concurrentVars>>

NextQueue ==
    \/ addFeatureRequestCall
    \/ getAllFeatureRequestsCall
    \/ getRecentFeatureRequestsCall
    \/ clearFeatureRequestsCall

SpecQueue == Init /\ [][NextQueue]_vars

\* Longest question, in words, performResearch is called with.
MaxWords == 4

\* the words the questions are made of
QuestionWords ==
    {"Why", "gardening", "Climate", "change?", "climate-change", "Machine", "learning,"}

\* the caller puts a question together, one word at a time
composeQuestion ==
    /\ ToolsIdle
    /\ toolCall.op \in {"none", "question"}
    /\ \E w \in QuestionWords :
          LET sofar == IF toolCall.op = "none" THEN <<>> ELSE toolCall.input
          IN /\ Len(sofar) < 2 * MaxWords - 1
             /\ toolCall' = [op |-> "question",
                             input |-> IF sofar = <<>> THEN <<w>>
                                       ELSE sofar \o <<WS, w>>,
                             result |-> <<>>]
    /\ UNCHANGED <<entry, pc, node, steps, messages, agentState, featureRequests,
                   now, passes, trace, oracleCalls, queueAtStart, lastPass,
                   response, returned, added>>
    /\ UNCHANGED <<reactVars, concurrentVars>>

performResearchCall ==
    /\ ToolsIdle
    /\ toolCall.op = "question"
    /\ toolCall' = [op |-> "performResearch", input |-> toolCall.input,
                    result |-> performResearch(toolCall.input)]
    /\ UNCHANGED <<entry, pc, node, steps, messages, agentState, featureRequests,
                   now, passes, trace, oracleCalls, queueAtStart, lastPass,
                   response, returned, added>>
    /\ UNCHANGED <<reactVars, concurrentVars>>

\* states router is applied to: every value of the two routing fields, with
\* different messages and artifacts
RouterInputs ==
    { [messages |-> m,
       agentState |-> [createInitialState.agentState EXCEPT
                           !.currentAgent = a,
                           !.taskCompleted = t,
                           !.researchResults = r]] :
      m \in { createInitialState.messages,
              Append(createInitialState.messages,
                     Msg("user", Text("What causes climate change?"), Undefined)) },
      a \in Nodes,
      t \in BOOLEAN,
      r \in { None, Some([question |-> "Why is it?", answer |-> "Synthesised answer",
                           sources |-> GenericSources]) } }

routerCall ==
    /\ ToolsIdle
    /\ toolCall.op \in {"none", "router"}
    /\ \E state \in RouterInputs :
          toolCall' = [op |-> "router", input |-> state, result |-> router(state)]
    /\ UNCHANGED <<entry, pc, node, steps, messages, agentState, featureRequests,
                   now, passes, trace, oracleCalls, queueAtStart, lastPass,
                   response, returned, added>>
    /\ UNCHANGED <<reactVars, concurrentVars>>

\* subreddit names a caller may ask for
RequestedNames == {"", "GME", "gme", "SuperStonk", "wallstreetbets", "Stocks"}

\* the source sets fetchRedditPosts is called with: none given, or a list of
\* up to two names
SourceSets ==
    {None} \cup { Some(<<>>) }
           \cup { Some(<<a>>) : a \in RequestedNames }
           \cup { Some(<<a, b>>) : a \in RequestedNames, b \in RequestedNames }

fetchRedditPostsCall ==
    /\ ToolsIdle
    /\ toolCall.op \in {"none", "fetchRedditPosts"}
    /\ \E subreddits \in SourceSets :
          toolCall' = [op |-> "fetchRedditPosts", input |-> subreddits,
                       result |-> fetchRedditPosts(subreddits, "day")]
    /\ UNCHANGED <<entry, pc, node, steps, messages, agentState, featureRequests,
                   now, passes, trace, oracleCalls, queueAtStart, lastPass,
                   response, returned, added>>
    /\ UNCHANGED <<reactVars, concurrentVars>>

\* Largest limit the simulated Reddit tool is called with.
MaxLimit == 7

ToolTopics == {"GME", "Gme", "gme", "GameStop", "gamestop", "AAPL", ""}

simulateRedditGmeFetcherToolCall ==
    /\ ToolsIdle
    /\ toolCall.op \in {"none", "simulate_reddit_gme_fetcher"}
    /\ \E topic \in ToolTopics, limit \in 0..MaxLimit :
          LET args == [subreddit |-> "wallstreetbets", topic |-> topic, limit |-> limit]
          IN toolCall' = [op |-> "simulate_reddit_gme_fetcher", input |-> args,
                          result |-> simulateRedditGmeFetcherTool(args)]
    /\ UNCHANGED <<entry, pc, node, steps, messages, agentState, featureRequests,
                   now, passes, trace, oracleCalls, queueAtStart, lastPass,
                   response, returned, added>>
    /\ UNCHANGED <<reactVars, concurrentVars>>

NextTools ==
    \/ composeQuestion
    \/ performResearchCall
    \/ routerCall
    \/ fetchRedditPostsCall
    \/ simulateRedditGmeFetcherToolCall

SpecTools == Init /\ [][NextTools]_vars

\* C21: starting from an empty queue or after clearFeatureRequests,
\* getAllFeatureRequests returns exactly the requests added since, in the
\* order they were added, and a list it returned earlier still holds what it
\* held when it was returned, whatever was added or cleared afterwards.
C21_GetAllIsOrderedSnapshot ==
    /\ toolCall.op = "getAllFeatureRequests" => toolCall.result = added
    /\ \A i \in 1..Len(returned) : returned[i].items = returned[i].seen

\* a list of two requests was returned, then one more was added and the queue
\* was cleared and refilled
C21_Witness ==
    /\ Len(returned) = 1
    /\ Len(returned[1].seen) = 2
    /\ returned[1].seen[1].timestamp = 2
    /\ returned[1].seen[2].timestamp = 1
    /\ toolCall.op = "addFeatureRequest"
    /\ Len(added) = 1
    /\ featureRequests = added
    /\ featureRequests # SubSeq(returned[1].seen, 1, 1)

RECURSIVE stampCount(_, _)
\* how many requests of the list carry timestamp t
stampCount(t, list) ==
    IF list = <<>> THEN 0
    ELSE (IF Head(list).timestamp = t THEN 1 ELSE 0) + stampCount(t, Tail(list))

\* C22: for a queue of N requests and 0 <= k <= N, getRecentFeatureRequests(k)
\* returns exactly k requests, they are requests of the queue, every request
\* newer than one of them is among them, they are ordered by non-increasing
\* timestamp, and the queue keeps its order and content.
C22_RecentAreTheKLatest ==
    [][ getRecentFeatureRequestsCall
        => LET k == toolCall'.input
               recent == toolCall'.result
               N == Len(featureRequests)
           IN (0 <= k /\ k <= N)
              => /\ Len(recent) = k
                 /\ \A t \in Stamps :
                        stampCount(t, recent) <= stampCount(t, featureRequests)
                 /\ \A i \in 1..Len(recent) : \A t \in Stamps :
                        t > recent[i].timestamp
                        => stampCount(t, recent) = stampCount(t, featureRequests)
                 /\ \A i \in 1..Len(recent) - 1 :
                        recent[i].timestamp >= recent[i + 1].timestamp
                 /\ featureRequests' = featureRequests ]_vars

\* the two latest of three requests pushed out of timestamp order
C22_Witness ==
    /\ toolCall.op = "getRecentFeatureRequests"
    /\ toolCall.input = 2
    /\ Len(featureRequests) = 3
    /\ featureRequests[1].timestamp = 1
    /\ featureRequests[2].timestamp = 3
    /\ featureRequests[3].timestamp = 2
    /\ Len(toolCall.result) = 2
    /\ toolCall.result[1].timestamp = 3
    /\ toolCall.result[2].timestamp = 2

----------------------------------------------------------------------------
(* Claims about the research tool *)

\* the lookup found no entry of the knowledge base for the question
matchesNoKeyword(question) == internalEntries(extractKeywords(question)) = <<>>

\* C23: whenever the question matches no keyword of the knowledge base,
\* performResearch returns the generic pair of snippets saying the question is
\* outside the known domain.
C23_NoMatchGivesGenericPair ==
    (toolCall.op = "performResearch" /\ matchesNoKeyword(toolCall.input))
        => toolCall.result = GenericSources

ClimateChange == importantPhrases[4]

ClimateEntries ==
    [i \in 1..Len(knowledgeBase("climate change")) |->
        "[Internal Knowledge Base] " \o knowledgeBase("climate change")[i]]

\* the entry of the knowledge base that names greenhouse gases
GreenhouseEntry ==
    "[Internal Knowledge Base] The burning of fossil fuels is a major contributor to greenhouse gas emissions."

\* the question, lower-cased and without punctuation, holds the phrase
mentions(question, phrase) == includesPhrase(cleanTokens(question), phrase)

\* C24 as stated: every question that contains "climate change" (any letter
\* case, punctuation ignored) is answered with the climate-change entries of
\* the knowledge base, one of which names greenhouse gases.
C24_ClimateQuestionGetsClimateEntries ==
    (toolCall.op = "performResearch" /\ mentions(toolCall.input, ClimateChange))
        => /\ toolCall.result = ClimateEntries
           /\ \E i \in 1..Len(toolCall.result) : toolCall.result[i] = GreenhouseEntry

\* the question holds a phrase the keyword extraction looks for before phrase i
earlierPhrase(question, i) ==
    \E j \in 1..(i - 1) : mentions(question, importantPhrases[j])

\* C24 amended: every question that contains "climate change" (any letter
\* case, punctuation ignored) and none of the phrases looked for before it
\* ("machine learning", "artificial intelligence", "blockchain") is answered
\* with the climate-change entries of the knowledge base, one of which names
\* greenhouse gases.
C24_ClimateQuestionWithoutEarlierPhrase ==
    (/\ toolCall.op = "performResearch"
     /\ mentions(toolCall.input, ClimateChange)
     /\ ~earlierPhrase(toolCall.input, 4))
        => /\ toolCall.result = ClimateEntries
           /\ \E i \in 1..Len(toolCall.result) : toolCall.result[i] = GreenhouseEntry

\* "Why Climate change?" was looked up
C24_Witness ==
    /\ toolCall.op = "performResearch"
    /\ toolCall.input = <<"Why", WS, "Climate", WS, "change?">>
    /\ Len(toolCall.result) = 3
    /\ toolCall.result[2] = GreenhouseEntry

----------------------------------------------------------------------------
(* Claims about router *)

\* two states agree on the fields router may read
sameRoutingFields(s, t) ==
    /\ s.agentState.taskCompleted = t.agentState.taskCompleted
    /\ s.agentState.currentAgent = t.agentState.currentAgent

\* C27: router's decision is a function of taskCompleted and currentAgent alone:
\* applied to any other state with the same two fields, whatever its messages
\* and artifacts, it names the same next node; and applying it changes neither
\* the state it is given nor any state of the program.
C27_RouterReadsTwoFields ==
    [][ routerCall
        => /\ \A other \in RouterInputs :
                 sameRoutingFields(other, toolCall'.input)
                 => router(other) = toolCall'.result
           /\ router(toolCall'.input) = toolCall'.result
           /\ toolCall'.input \in RouterInputs
           /\ UNCHANGED <<messages, agentState, featureRequests, node, pc>> ]_vars

\* router was applied to a state with a user message and a stored artifact
\* whose worker had not completed
C27_Witness ==
    /\ toolCall.op = "router"
    /\ Len(toolCall.input.messages) = 2
    /\ toolCall.input.agentState.researchResults # None
    /\ ~toolCall.input.agentState.taskCompleted
    /\ toolCall.input.agentState.currentAgent = DRA
    /\ toolCall.result = DRA

----------------------------------------------------------------------------
(* Claims about the nodes of the minimal graph seen from the executor *)

----------------------------------------------------------------------------
(* Claims about the prompts and the edges of the ReAct graph *)

\* C26: the prompt of every oracle call carries a number of conversation
\* messages bounded by a constant that does not grow with the conversation: a
\* call made at the i-th step of a turn carries no more than the i messages
\* the turn itself can hold by then (the user's line and one per earlier
\* step), however many turns came before.
C26_PromptHistoryBounded ==
    entry = "conversation" =>
        \A i \in 1..Len(trace) : trace[i].prompt <= i

toolNodeOf(agent) == IF agent = R_AGENT THEN R_TOOLS ELSE G_TOOLS

ownerOf(toolNode) == IF toolNode = R_TOOLS THEN R_AGENT ELSE G_AGENT

carriesToolCall(msg) == msg.type = "ai" /\ Len(msg.tool_calls) > 0

\* a node of the ReAct graph returned and the executor resolved its edge
ReactStep ==
    /\ entry = "conversation"
    /\ pc = "running"
    /\ Len(trace') = Len(trace) + 1
    /\ Last(trace').outcome # "threw"

\* C28: in the ReAct graph, after a step of research_agent or gme_reddit_agent
\* the next node is that agent's own tool node exactly when the last message
\* carries a tool call, and the supervisor otherwise; after a tool node the
\* next node is the agent that owns it; after feature_request_agent the next
\* node is the supervisor; the run reaches END only from the supervisor.
C28_ToolLoopEdges ==
    [][ ReactStep =>
          /\ node \in {R_AGENT, G_AGENT} =>
                IF carriesToolCall(Last(messages'))
                THEN node' = toolNodeOf(node)
                ELSE node' = SUP
          /\ node \in {R_TOOLS, G_TOOLS} => node' = ownerOf(node)
          /\ node = FR_AGENT => node' = SUP
          /\ pc' = "END" => node = SUP ]_vars

----------------------------------------------------------------------------
(* Claims about how a pass of the minimal graph ends *)

\* C29: whenever a pass of the minimal graph halts at END, the final state has
\* currentAgent = PersonalAssistant and taskCompleted = false and its last
\* message is an assistant message of PersonalAssistant; hence the text
\* handler returns is always the content of a PersonalAssistant message.
C29_PassEndsOnSupervisorMessage ==
    /\ (InGraph /\ pc = "END")
          => /\ agentState.currentAgent = PA
             /\ ~agentState.taskCompleted
             /\ Last(messages).role = "assistant"
             /\ Last(messages).agentName = PA
             /\ Last(trace).node = PA
    /\ (entry = "handler" /\ pc = "idle" /\ response \notin {<<>>, Rejected})
          => /\ Last(assistantMessagesOf(messages)).agentName = PA
             /\ response = Last(assistantMessagesOf(messages)).content

\* handler returned after a worker had completed its task and the supervisor
\* had run once more
C29_Witness ==
    /\ entry = "handler"
    /\ pc = "idle"
    /\ response \notin {<<>>, Rejected}
    /\ Len(trace) = 3
    /\ trace[2].outcome = "dr_success"
    /\ trace[3].node = PA
    /\ response = Last(messages).content

\* C30: every invocation of a node of the minimal graph, whether it succeeds
\* or takes a failure path, appends exactly one message to the messages it was
\* given; the message has role assistant and carries the identifier of the
\* node that ran as agentName.
C30_OneSignedMessagePerInvocation ==
    [][ NodeStep =>
          /\ Len(messages') = Len(messages) + 1
          /\ SubSeq(messages', 1, Len(messages)) = messages
          /\ Last(messages').role = "assistant"
          /\ Last(messages').agentName = node
          /\ Last(trace').node = node ]_vars

\* a routing reply, a worker's failure reply and the supervisor's failure reply
\* each are one message signed by the node that ran
C30_Witness ==
    /\ InGraph
    /\ Len(trace) = 3
    /\ trace[1].outcome = "routed"
    /\ trace[2].outcome = "gme_error"
    /\ trace[3].outcome = "pa_error"
    /\ Len(messages) = initialLength + 3
    /\ messages[initialLength + 2].agentName = GRA

----------------------------------------------------------------------------
(* Claims about the channels of the ReAct graph and about runConversation *)

ReactWorkers == {FR_AGENT, R_AGENT, G_AGENT}

\* the steps of the current pass taken by a worker that returned
workerSteps ==
    { i \in 1..Len(trace) : trace[i].node \in ReactWorkers /\ trace[i].outcome # "threw" }

\* C31: in the ReAct graph a supervisor step changes only nextAgent and
\* appends no message; a worker or tool step only appends messages and leaves
\* nextAgent as it was; no step changes userInput.  Hence, when the pass
\* reaches END, the last message of the state is the user's message if no
\* worker ran (the history of the conversation is untouched), and otherwise an
\* AI message appended in this pass, the one the last worker step produced.
C31_ChannelsWrittenByRole ==
    [][ ReactStep =>
          /\ userInput' = userInput
          /\ node = SUP => messages' = messages
          /\ node # SUP =>
                /\ nextAgent' = nextAgent
                /\ Len(messages') >= Len(messages)
                /\ SubSeq(messages', 1, Len(messages)) = messages
          /\ pc' = "END" =>
                IF workerSteps = {}
                THEN /\ messages' = currentMessages
                     /\ Last(messages').type = "human"
                     /\ Last(messages').content = userInput
                ELSE /\ Len(messages') > Len(currentMessages)
                     /\ Last(messages').type = "ai"
                     /\ trace[Len(trace)].node \in ReactWorkers ]_vars

\* a pass reached END after a worker's final answer came back to the
\* supervisor, in the second turn of the conversation
C31_Witness ==
    /\ entry = "conversation"
    /\ pc = "END"
    /\ passes = 2
    /\ Len(trace) = 3
    /\ trace[2].node = G_AGENT
    /\ trace[2].outcome = "end"
    /\ trace[3].node = SUP
    /\ Last(messages).content = <<"Final GME summary">>

\* C32: in the ReAct graph featureRequestNode never throws and appends exactly
\* one AI message whatever the structured extraction does: when it succeeds
\* the in-memory queue grows by exactly one entry and the reply names that
\* entry's title; when it fails the queue is unchanged and the reply asks the
\* user to rephrase; either way the next node is the supervisor.
C32_FeatureRequestNodeRecovers ==
    [][ (ReactRunning(FR_AGENT) /\ Len(trace') = Len(trace) + 1) =>
          /\ Last(trace').outcome \in {"logged", "sorry"}
          /\ pc' # "NodeError"
          /\ node' = SUP
          /\ Len(messages') = Len(messages) + 1
          /\ SubSeq(messages', 1, Len(messages)) = messages
          /\ Last(messages').type = "ai"
          /\ Last(messages').tool_calls = <<>>
          /\ Last(trace').outcome = "logged" =>
                /\ Len(featureRequestQueue') = Len(featureRequestQueue) + 1
                /\ SubSeq(featureRequestQueue', 1, Len(featureRequestQueue))
                       = featureRequestQueue
                /\ Last(featureRequestQueue').title \in Range(Last(messages').content)
          /\ Last(trace').outcome = "sorry" =>
                /\ featureRequestQueue' = featureRequestQueue
                /\ Last(messages').content = FRNodeSorry ]_vars

\* one request was logged in the first turn and the extraction failed in the
\* second
C32_Witness ==
    /\ entry = "conversation"
    /\ passes = 2
    /\ Len(trace) = 2
    /\ trace[2].node = FR_AGENT
    /\ trace[2].outcome = "sorry"
    /\ Len(featureRequestQueue) = 1
    /\ Last(messages).content = FRNodeSorry
    /\ node = SUP

RunFailed == pc \in {"RecursionError", "RoutingError", "NodeError"}

\* C33: in runConversation a graph run that throws does not end the session.
\* A turn starts by adding the user's line to the history and dispatching the
\* whole history; the history does not change while the run is in flight; when
\* the run throws, the loop goes back to its prompt with the history it had
\* before the turn plus the user's line and no assistant reply; the next line
\* is dispatched with that history.
C33_FailedRunKeepsSession ==
    [][ entry' = "conversation" =>
          /\ (pc = "idle" /\ pc' = "running") =>
                /\ currentMessages' = Append(currentMessages, HumanMessage(userInput'))
                /\ messages' = currentMessages'
          /\ pc = "running" => currentMessages' = currentMessages
          /\ (RunFailed /\ pc' # pc) =>
                /\ pc' = "idle"
                /\ currentMessages' = currentMessages
                /\ Last(currentMessages') = HumanMessage(userInput)
                /\ response' = ConversationSorry ]_vars

\* a run that had produced an AI message and a tool message was rejected: the
\* loop is back at its prompt and the history holds the user's line only
C33_Witness ==
    /\ entry = "conversation"
    /\ passes = 1
    /\ pc = "idle"
    /\ response = ConversationSorry
    /\ Len(messages) = 3
    /\ Len(currentMessages) = 1
    /\ currentMessages[1] = HumanMessage(userInput)

----------------------------------------------------------------------------
(* Claims about the feature requests a pass lists *)

RECURSIVE IsSubsequence(_, _)
\* the entries of part occur in whole, in the same relative order
IsSubsequence(part, whole) ==
    IF part = <<>> THEN TRUE
    ELSE IF whole = <<>> THEN FALSE
    ELSE IF Head(part) = Head(whole)
         THEN IsSubsequence(Tail(part), Tail(whole))
         ELSE IsSubsequence(part, Tail(whole))

\* C34: within a pass of the minimal graph (clearFeatureRequests is not called
\* by it), every entry of agentState.featureRequests is also in the shared
\* queue, in the same relative order: the state never lists a request the
\* queue lacks.
C34_StateListsOnlyQueuedRequests ==
    InGraph => IsSubsequence(agentState.featureRequests, featureRequests)

\* the second pass stored two requests; the queue also holds the one of the
\* first pass
C34_Witness ==
    /\ entry = "handler"
    /\ passes = 2
    /\ Len(agentState.featureRequests) = 2
    /\ Len(featureRequests) = 3
    /\ featureRequests[2] = agentState.featureRequests[1]
    /\ featureRequests[3] = agentState.featureRequests[2]

----------------------------------------------------------------------------
(* Claims about the Reddit tools *)

\* the spellings of one subreddit name
NameSpellings ==
    { {"GME", "gme"}, {"Superstonk", "SuperStonk", "superstonk"},
      {"wallstreetbets", "WallStreetBets"}, {"stocks", "Stocks"} }

\* two names are the same up to letter case
sameName(a, b) == a = b \/ \E c \in NameSpellings : a \in c /\ b \in c

\* the feed posts whose subreddit is one of the names, in feed order
postsOf(names) ==
    SelectSeq(mockPosts,
              LAMBDA post : \E i \in 1..Len(names) : sameName(post.subreddit, names[i]))

\* C35: fetchRedditPosts returns, in feed order, exactly the posts of the feed
\* whose subreddit is in the requested source set, names compared without
\* regard to letter case; an empty source set, or one whose first element is
\* the empty string, returns every post of the feed.
C35_FeedFilteredBySourceSet ==
    toolCall.op = "fetchRedditPosts" =>
        LET requested == IF toolCall.input = None THEN DefaultSubreddits
                         ELSE toolCall.input[1]
        IN IF requested = <<>> \/ requested[1] = ""
           THEN toolCall.result = mockPosts
           ELSE toolCall.result = postsOf(requested)

\* the posts of two subreddits, asked for in another letter case and in
\* another order than the feed's
C35_Witness ==
    /\ toolCall.op = "fetchRedditPosts"
    /\ toolCall.input = Some(<<"gme", "SuperStonk">>)
    /\ Len(toolCall.result) = 3
    /\ toolCall.result[1].subreddit = "Superstonk"
    /\ toolCall.result[2].subreddit = "GME"
    /\ toolCall.result[3].subreddit = "Superstonk"

\* the topics that are gme or gamestop up to letter case
GmeTopics == {"GME", "Gme", "gme", "GameStop", "gamestop"}

\* C36: for a topic that is gme or gamestop in any letter case and an integer
\* limit >= 0 the simulated Reddit tool returns exactly limit records, record
\* i (counted from 0) being simulated record i mod 5; for any other topic or
\* none it returns a refusal text and no records.
C36_SimulatedRecordsCycle ==
    toolCall.op = "simulate_reddit_gme_fetcher" =>
        LET args == toolCall.input
            out == toolCall.result
        IN IF args.topic \in GmeTopics
           THEN /\ Len(out.records) = args.limit
                /\ \A i \in 0..(args.limit - 1) :
                       out.records[i + 1] = simulatedData[(i % 5) + 1]
                /\ out.text = <<"JSON">>
           ELSE /\ out.records = <<>>
                /\ out.text[1] = "This tool is currently focused on GME. Cannot fetch for"

\* seven records were asked for: the sixth and seventh repeat the first two
C36_Witness ==
    /\ toolCall.op = "simulate_reddit_gme_fetcher"
    /\ toolCall.input.topic = "GameStop"
    /\ toolCall.input.limit = 7
    /\ Len(toolCall.result.records) = 7
    /\ toolCall.result.records[6] = simulatedData[1]
    /\ toolCall.result.records[7] = simulatedData[2]

====
